---------------------------- MODULE Spec2Model ----------------------------
(***************************************************************************)
(* ChatWave: workspace-scoped chat backend (Convex functions) and its seed *)
(* action.  Every query and mutation is one serializable transaction, so   *)
(* each is one action; the seed action is a sequence of such transactions  *)
(* and is modelled step by step.                                           *)
(*                                                                         *)
(* Documents live in append-only tables (nothing in scope deletes); a      *)
(* document's id is its position in its table, which is also its creation  *)
(* order, so an index scan's .first() is the lowest matching position.     *)
(*                                                                         *)
(* A string is the sequence of its words and whitespace runs: SP is a run  *)
(* of whitespace, every other element a whitespace-free word.              *)
(***************************************************************************)
EXTENDS Integers, Sequences, FiniteSets, TLC

VARIABLES
    users,        \* auth table "users": Seq of [email, name]
    profiles,     \* table "profiles": Seq of [userId, name]
    workspaces,   \* table "workspaces": Seq of [name, createdBy]
    members,      \* table "workspaceMembers": Seq of [workspaceId, userId, role]
    channels,     \* table "channels": Seq of [workspaceId, name, createdBy]
    messages,     \* table "messages": Seq of [workspaceId, channelId, authorId, content]
    resp,         \* the last function call and what it answered
    seed,         \* the executions of the seed action: run -> frame
    boot,         \* concurrent ensureForCurrentUser calls: call -> outcome
    ui,           \* the WorkspaceBootstrap component of each browser tab
    deploy        \* a run of scripts/deploy-env.sh or scripts/deploy-preview.sh

tables == <<users, profiles, workspaces, members, channels, messages>>
vars == <<users, profiles, workspaces, members, channels, messages, resp, seed, boot,
         ui, deploy>>

-----------------------------------------------------------------------------
(* Bounds of the exploration.                                              *)

MaxWorkspaces == 2
MaxMembers == 2
MaxChannels == 3
MaxMessages == 2

-----------------------------------------------------------------------------
(* Strings.                                                                *)

SP == " "

RECURSIVE trimStart(_)
trimStart(s) ==
    IF s # <<>> /\ Head(s) = SP THEN trimStart(Tail(s)) ELSE s

RECURSIVE trimEnd(_)
trimEnd(s) ==
    IF s # <<>> /\ s[Len(s)] = SP THEN trimEnd(SubSeq(s, 1, Len(s) - 1)) ELSE s

\* String.prototype.trim
trim(s) == trimEnd(trimStart(s))

\* the words of a string, as the search index tokenizes it
Words(s) == {s[i] : i \in DOMAIN s} \ {SP}

\* optional values: v.optional / undefined
None == <<>>
Some(x) == <<x>>

-----------------------------------------------------------------------------
(* Identifiers and error messages.                                         *)

NoUser == 0          \* getAuthUserId(ctx) = null
NoDoc == 0           \* a well-formed id that names no document
NoArg == -1          \* an optional argument left out

OK == "ok"
ErrNotAuthenticated == "Not authenticated"
ErrMultiple == "User belongs to multiple workspaces; expected exactly one workspace"
ErrDifferent == "User already belongs to a different workspace"
ErrNoMembership == "No workspace membership found for user"
ErrWorkspaceName == "Workspace name is required"
ErrChannelName == "Channel name is required"
ErrChannelExists == "Channel already exists"
ErrChannelAccess == "Not authorized to access this channel"
ErrMessageEmpty == "Message cannot be empty"
ErrChannelNotFound == "Channel not found"
ErrChannelSend == "Not authorized to send messages to this channel"
ErrChannelSearch == "Not authorized to search this channel"

NotAuthorized == {ErrChannelAccess, ErrChannelSend, ErrChannelSearch}

workspaceRole == {"owner", "member"}


-----------------------------------------------------------------------------
(* Index scans.  Positions are ids; a scan yields them in creation order.  *)

Ids(table) == DOMAIN table

Min(S) == CHOOSE x \in S : \A y \in S : x <= y

\* .first(): the lowest matching id, or NoDoc (null)
First(S) == IF S = {} THEN NoDoc ELSE Min(S)

RECURSIVE Asc(_)
\* .collect() / .order("asc"): the matching ids in creation order
Asc(S) == IF S = {} THEN <<>> ELSE <<Min(S)>> \o Asc(S \ {Min(S)})

\* .take(n)
\* variant: no limit
TakeAll(n, s) == s

Take(n, s) == IF Len(s) <= n THEN s ELSE SubSeq(s, 1, n)

\* workspaceMembers.by_user
MembersByUser(userId) == {i \in Ids(members) : members[i].userId = userId}

\* workspaceMembers.by_workspace_and_user
MembersByWorkspaceAndUser(workspaceId, userId) ==
    {i \in Ids(members) :
        members[i].workspaceId = workspaceId /\ members[i].userId = userId}

\* channels.by_workspace
ChannelsByWorkspace(workspaceId) ==
    {i \in Ids(channels) : channels[i].workspaceId = workspaceId}

\* channels.by_workspace_and_name
ChannelsByWorkspaceAndName(workspaceId, name) ==
    {i \in Ids(channels) :
        channels[i].workspaceId = workspaceId /\ channels[i].name = name}

\* messages.by_channel
MessagesByChannel(channelId) ==
    {i \in Ids(messages) : messages[i].channelId = channelId}

\* profiles.by_user
ProfilesByUser(userId) == {i \in Ids(profiles) : profiles[i].userId = userId}

\* ctx.db.get(id): whether the id names a document
Exists(table, id) == id \in Ids(table)

-----------------------------------------------------------------------------
(* The tenancy layer's helpers.  Each answers [err, row]: err is OK or the *)
(* message of the Error thrown, row the membership id or NoDoc (null).     *)

getMembershipForUser(userId) == First(MembersByUser(userId))

\* variant: the expected workspace is not compared with the row found
assertSingleAnyWorkspace(userId, expectedWorkspaceId) ==
    LET memberships == MembersByUser(userId) IN
    IF Cardinality(memberships) = 0 THEN [err |-> OK, row |-> NoDoc]
    ELSE IF Cardinality(memberships) > 1 THEN [err |-> ErrMultiple, row |-> NoDoc]
    ELSE [err |-> OK, row |-> Min(memberships)]

\* variant: the membership rows are not read, every user looks new
assertSingleUnread(userId, expectedWorkspaceId) == [err |-> OK, row |-> NoDoc]

assertSingleWorkspaceMembership(userId, expectedWorkspaceId) ==
    LET memberships == MembersByUser(userId) IN
    IF Cardinality(memberships) = 0 THEN [err |-> OK, row |-> NoDoc]
    ELSE IF Cardinality(memberships) > 1 THEN [err |-> ErrMultiple, row |-> NoDoc]
    ELSE LET membership == Min(memberships) IN
         IF expectedWorkspaceId # NoArg
              /\ members[membership].workspaceId # expectedWorkspaceId
         THEN [err |-> ErrDifferent, row |-> NoDoc]
         ELSE [err |-> OK, row |-> membership]

requireWorkspaceForUser(userId) ==
    LET membership == assertSingleWorkspaceMembership(userId, NoArg) IN
    IF membership.err # OK THEN membership
    ELSE IF membership.row = NoDoc THEN [err |-> ErrNoMembership, row |-> NoDoc]
    ELSE membership

\* answers [err, ret]: ret is the boolean returned when nothing is thrown
isMemberOfWorkspace(userId, workspaceId) ==
    LET membership == assertSingleWorkspaceMembership(userId, NoArg) IN
    IF membership.err # OK THEN [err |-> membership.err, ret |-> FALSE]
    ELSE [err |-> OK,
          ret |-> membership.row # NoDoc
                    /\ members[membership.row].workspaceId = workspaceId]

-----------------------------------------------------------------------------
(* What a call answers.  kind is "error" (err is the message thrown),      *)
(* "null", "list" (ret the documents), "doc" (ret one document) or "id"    *)
(* (ret the id a mutation returned).                                       *)

Resp(op, user, arg, kind, err, ret, created) ==
    [op |-> op, user |-> user, arg |-> arg, kind |-> kind, err |-> err,
     ret |-> ret, created |-> created]

Threw(op, user, arg, err) == Resp(op, user, arg, "error", err, <<>>, FALSE)
Null(op, user, arg) == Resp(op, user, arg, "null", OK, <<>>, FALSE)
List(op, user, arg, docs) == Resp(op, user, arg, "list", OK, docs, FALSE)
Doc(op, user, arg, doc) == Resp(op, user, arg, "doc", OK, <<doc>>, FALSE)
Id(op, user, arg, id) == Resp(op, user, arg, "id", OK, <<id>>, FALSE)

\* the arguments of a call: a channel id and a text, NoArg / "" when it has none
Args(channelId, text) == [channelId |-> channelId, text |-> text]
NoArgs == Args(NoArg, <<>>)

NoCall == Resp("none", NoUser, NoArgs, "null", OK, <<>>, FALSE)


-----------------------------------------------------------------------------
(* workspaces.ts                                                           *)

\* email.split("@")[0]
RECURSIVE localPart(_)
localPart(email) ==
    IF email = <<>> \/ Head(email) = "@" THEN <<>>
    ELSE <<Head(email)>> \o localPart(Tail(email))

\* user?.email?.split("@")[0] ?? "My"
nameFromEmail(user) ==
    IF user.email = None THEN <<"My">> ELSE localPart(user.email[1])

\* user?.name?.trim() || nameFromEmail
baseName(user) ==
    IF user.name # None /\ trim(user.name[1]) # <<>>
    THEN trim(user.name[1])
    ELSE nameFromEmail(user)

\* `${baseName}'s Workspace`
personalWorkspaceName(user) == baseName(user) \o <<"'s", SP, "Workspace">>

\* variant: an existing membership is reported as created
ensureForCurrentUserCreated(userId) ==
    LET op == "ensureForCurrentUser"
        existingMembership == assertSingleWorkspaceMembership(userId, NoArg)
        workspaceId == Len(workspaces) + 1
    IN
    /\ UNCHANGED <<users, profiles, messages>>
    /\ IF userId = NoUser
       THEN /\ resp' = Threw(op, userId, NoArgs, ErrNotAuthenticated)
            /\ UNCHANGED <<workspaces, members, channels>>
       ELSE IF existingMembership.err # OK
       THEN /\ resp' = Threw(op, userId, NoArgs, existingMembership.err)
            /\ UNCHANGED <<workspaces, members, channels>>
       ELSE IF existingMembership.row # NoDoc
       THEN /\ resp' = Resp(op, userId, NoArgs, "id", OK,
                            <<members[existingMembership.row].workspaceId>>, TRUE)
            /\ UNCHANGED <<workspaces, members, channels>>
       ELSE /\ workspaces' = Append(workspaces,
                    [name |-> personalWorkspaceName(users[userId]),
                     createdBy |-> userId])
            /\ members' = Append(members,
                    [workspaceId |-> workspaceId, userId |-> userId,
                     role |-> "owner"])
            /\ channels' = Append(channels,
                    [workspaceId |-> workspaceId, name |-> <<"general">>,
                     createdBy |-> userId])
            /\ resp' = Resp(op, userId, NoArgs, "id", OK, <<workspaceId>>, TRUE)

ensureForCurrentUser(userId) ==
    LET op == "ensureForCurrentUser"
        existingMembership == assertSingleWorkspaceMembership(userId, NoArg)
        workspaceId == Len(workspaces) + 1
    IN
    /\ UNCHANGED <<users, profiles, messages>>
    /\ IF userId = NoUser
       THEN /\ resp' = Threw(op, userId, NoArgs, ErrNotAuthenticated)
            /\ UNCHANGED <<workspaces, members, channels>>
       ELSE IF existingMembership.err # OK
       THEN /\ resp' = Threw(op, userId, NoArgs, existingMembership.err)
            /\ UNCHANGED <<workspaces, members, channels>>
       ELSE IF existingMembership.row # NoDoc
       THEN /\ resp' = Resp(op, userId, NoArgs, "id", OK,
                            <<members[existingMembership.row].workspaceId>>, FALSE)
            /\ UNCHANGED <<workspaces, members, channels>>
       ELSE /\ workspaces' = Append(workspaces,
                    [name |-> personalWorkspaceName(users[userId]),
                     createdBy |-> userId])
            /\ members' = Append(members,
                    [workspaceId |-> workspaceId, userId |-> userId,
                     role |-> "owner"])
            /\ channels' = Append(channels,
                    [workspaceId |-> workspaceId, name |-> <<"general">>,
                     createdBy |-> userId])
            /\ resp' = Resp(op, userId, NoArgs, "id", OK, <<workspaceId>>, TRUE)

\* what the handler of myWorkspace answers
myWorkspaceHandler(userId) ==
    LET op == "myWorkspace"
        membership == assertSingleWorkspaceMembership(userId, NoArg)
        workspaceId == members[membership.row].workspaceId
    IN
    IF userId = NoUser THEN Null(op, userId, NoArgs)
    ELSE IF membership.err # OK THEN Threw(op, userId, NoArgs, membership.err)
    ELSE IF membership.row = NoDoc THEN Null(op, userId, NoArgs)
    ELSE IF ~Exists(workspaces, workspaceId) THEN Null(op, userId, NoArgs)
    ELSE Doc(op, userId, NoArgs,
             [_id |-> workspaceId, name |-> workspaces[workspaceId].name,
              role |-> members[membership.row].role])

myWorkspace(userId) ==
    /\ UNCHANGED tables
    /\ resp' = myWorkspaceHandler(userId)

\* variant: the name is trimmed but not tested
createWorkspaceUnvalidated(argName, createdBy) ==
    /\ UNCHANGED <<users, profiles, members, channels, messages>>
    /\ workspaces' = Append(workspaces, [name |-> trim(argName), createdBy |-> createdBy])
    /\ resp' = Id("createWorkspace", NoUser, Args(NoArg, argName), Len(workspaces) + 1)

createWorkspace(argName, createdBy) ==
    LET op == "createWorkspace"
        name == trim(argName)
    IN
    /\ UNCHANGED <<users, profiles, members, channels, messages>>
    /\ IF name = <<>>
       THEN /\ resp' = Threw(op, NoUser, Args(NoArg, argName), ErrWorkspaceName)
            /\ UNCHANGED workspaces
       ELSE /\ workspaces' = Append(workspaces, [name |-> name, createdBy |-> createdBy])
            /\ resp' = Id(op, NoUser, Args(NoArg, argName), Len(workspaces) + 1)

\* variant: the user's other memberships are not looked at
addMemberUnchecked(workspaceId, userId, role) ==
    LET op == "addMember"
        args == Args(workspaceId, <<role>>)
        existing == First(MembersByWorkspaceAndUser(workspaceId, userId))
    IN
    /\ UNCHANGED <<users, profiles, workspaces, channels, messages>>
    /\ IF existing # NoDoc
       THEN /\ members' = IF members[existing].role # role
                          THEN [members EXCEPT ![existing].role = role]
                          ELSE members
            /\ resp' = Id(op, userId, args, existing)
       ELSE /\ members' = Append(members,
                    [workspaceId |-> workspaceId, userId |-> userId, role |-> role])
            /\ resp' = Id(op, userId, args, Len(members) + 1)

\* variant: the existing row is not looked up
addMemberInsert(workspaceId, userId, role) ==
    LET op == "addMember"
        args == Args(workspaceId, <<role>>)
        single == assertSingleWorkspaceMembership(userId, workspaceId)
    IN
    /\ UNCHANGED <<users, profiles, workspaces, channels, messages>>
    /\ IF single.err # OK
       THEN /\ resp' = Threw(op, userId, args, single.err)
            /\ UNCHANGED members
       ELSE /\ members' = Append(members,
                    [workspaceId |-> workspaceId, userId |-> userId, role |-> role])
            /\ resp' = Id(op, userId, args, Len(members) + 1)

addMember(workspaceId, userId, role) ==
    LET op == "addMember"
        args == Args(workspaceId, <<role>>)
        single == assertSingleWorkspaceMembership(userId, workspaceId)
        existing == First(MembersByWorkspaceAndUser(workspaceId, userId))
    IN
    /\ UNCHANGED <<users, profiles, workspaces, channels, messages>>
    /\ IF single.err # OK
       THEN /\ resp' = Threw(op, userId, args, single.err)
            /\ UNCHANGED members
       ELSE IF existing # NoDoc
       THEN /\ members' = IF members[existing].role # role
                          THEN [members EXCEPT ![existing].role = role]
                          ELSE members
            /\ resp' = Id(op, userId, args, existing)
       ELSE /\ members' = Append(members,
                    [workspaceId |-> workspaceId, userId |-> userId, role |-> role])
            /\ resp' = Id(op, userId, args, Len(members) + 1)


-----------------------------------------------------------------------------
(* channels.ts                                                             *)

channelDoc(id) ==
    [_id |-> id, workspaceId |-> channels[id].workspaceId,
     name |-> channels[id].name, createdBy |-> channels[id].createdBy]

ChannelsList(userId) ==
    LET op == "channels.list"
        membership == assertSingleWorkspaceMembership(userId, NoArg)
        found == Asc(ChannelsByWorkspace(members[membership.row].workspaceId))
    IN
    /\ UNCHANGED tables
    /\ resp' =
         IF userId = NoUser THEN List(op, userId, NoArgs, <<>>)
         ELSE IF membership.err # OK THEN Threw(op, userId, NoArgs, membership.err)
         ELSE IF membership.row = NoDoc THEN List(op, userId, NoArgs, <<>>)
         ELSE List(op, userId, NoArgs,
                   [i \in DOMAIN found |-> channelDoc(found[i])])

\* variant: the caller's identity is not checked
ChannelsCreateUnauthenticated(userId, argName) ==
    LET op == "channels.create"
        args == Args(NoArg, argName)
        name == trim(argName)
        membership == requireWorkspaceForUser(userId)
        workspaceId == members[membership.row].workspaceId
        existing == First(ChannelsByWorkspaceAndName(workspaceId, name))
    IN
    /\ UNCHANGED <<users, profiles, workspaces, members, messages>>
    /\ IF name = <<>>
       THEN /\ resp' = Threw(op, userId, args, ErrChannelName)
            /\ UNCHANGED channels
       ELSE IF membership.err # OK
       THEN /\ resp' = Threw(op, userId, args, membership.err)
            /\ UNCHANGED channels
       ELSE IF existing # NoDoc
       THEN /\ resp' = Threw(op, userId, args, ErrChannelExists)
            /\ UNCHANGED channels
       ELSE /\ channels' = Append(channels,
                    [workspaceId |-> workspaceId, name |-> name,
                     createdBy |-> userId])
            /\ resp' = Id(op, userId, args, Len(channels) + 1)

ChannelsCreate(userId, argName) ==
    LET op == "channels.create"
        args == Args(NoArg, argName)
        name == trim(argName)
        membership == requireWorkspaceForUser(userId)
        workspaceId == members[membership.row].workspaceId
        existing == First(ChannelsByWorkspaceAndName(workspaceId, name))
    IN
    /\ UNCHANGED <<users, profiles, workspaces, members, messages>>
    /\ IF userId = NoUser
       THEN /\ resp' = Threw(op, userId, args, ErrNotAuthenticated)
            /\ UNCHANGED channels
       ELSE IF name = <<>>
       THEN /\ resp' = Threw(op, userId, args, ErrChannelName)
            /\ UNCHANGED channels
       ELSE IF membership.err # OK
       THEN /\ resp' = Threw(op, userId, args, membership.err)
            /\ UNCHANGED channels
       ELSE IF existing # NoDoc
       THEN /\ resp' = Threw(op, userId, args, ErrChannelExists)
            /\ UNCHANGED channels
       ELSE /\ channels' = Append(channels,
                    [workspaceId |-> workspaceId, name |-> name,
                     createdBy |-> userId])
            /\ resp' = Id(op, userId, args, Len(channels) + 1)

ChannelsGet(userId, channelId) ==
    LET op == "channels.get"
        args == Args(channelId, <<>>)
        membership == assertSingleWorkspaceMembership(userId, NoArg)
    IN
    /\ UNCHANGED tables
    /\ resp' =
         IF userId = NoUser THEN Null(op, userId, args)
         ELSE IF membership.err # OK THEN Threw(op, userId, args, membership.err)
         ELSE IF membership.row = NoDoc THEN Null(op, userId, args)
         ELSE IF ~Exists(channels, channelId) THEN Null(op, userId, args)
         ELSE IF channels[channelId].workspaceId # members[membership.row].workspaceId
         THEN Threw(op, userId, args, ErrChannelAccess)
         ELSE Doc(op, userId, args, channelDoc(channelId))

-----------------------------------------------------------------------------
(* messages.ts                                                             *)

\* profile?.name || user?.name || user?.email || "Unknown"; the avatar URL is
\* the stored file the profile's avatarId names, null without one
getAuthorForMessage(authorId) ==
    LET profile == First(ProfilesByUser(authorId))
        user == IF Exists(users, authorId) THEN Some(users[authorId]) ELSE None
    IN
    [name |->
        IF profile # NoDoc /\ profiles[profile].name # <<>>
        THEN profiles[profile].name
        ELSE IF user # None /\ user[1].name # None /\ user[1].name[1] # <<>>
        THEN user[1].name[1]
        ELSE IF user # None /\ user[1].email # None /\ user[1].email[1] # <<>>
        THEN user[1].email[1]
        ELSE <<"Unknown">>,
     avatarUrl |-> IF profile # NoDoc THEN profiles[profile].avatarId ELSE None]

messageDoc(id) ==
    [_id |-> id, workspaceId |-> messages[id].workspaceId,
     channelId |-> messages[id].channelId, authorId |-> messages[id].authorId,
     content |-> messages[id].content]

\* { ...message, author }
listedMessage(id) ==
    [message |-> messageDoc(id), author |-> getAuthorForMessage(messages[id].authorId)]

\* { ...message, author, channelName }
foundMessage(id) ==
    [message |-> messageDoc(id),
     author |-> getAuthorForMessage(messages[id].authorId),
     channelName |->
        IF Exists(channels, messages[id].channelId)
             /\ channels[messages[id].channelId].name # <<>>
        THEN channels[messages[id].channelId].name
        ELSE <<"Unknown", SP, "Channel">>]

MessagesList(userId, channelId) ==
    LET op == "messages.list"
        args == Args(channelId, <<>>)
        membership == assertSingleWorkspaceMembership(userId, NoArg)
        workspaceId == members[membership.row].workspaceId
        found == Asc({i \in MessagesByChannel(channelId) :
                        messages[i].workspaceId = workspaceId})
    IN
    /\ UNCHANGED tables
    /\ resp' =
         IF userId = NoUser THEN List(op, userId, args, <<>>)
         ELSE IF membership.err # OK THEN Threw(op, userId, args, membership.err)
         ELSE IF membership.row = NoDoc THEN List(op, userId, args, <<>>)
         ELSE IF ~Exists(channels, channelId) THEN List(op, userId, args, <<>>)
         ELSE IF channels[channelId].workspaceId # workspaceId
         THEN Threw(op, userId, args, ErrChannelAccess)
         ELSE List(op, userId, args,
                   [i \in DOMAIN found |-> listedMessage(found[i])])

\* variant: the channel's workspace is not compared with the caller's
MessagesSendAnyChannel(userId, channelId, argContent) ==
    LET op == "messages.send"
        args == Args(channelId, argContent)
        membership == requireWorkspaceForUser(userId)
        workspaceId == members[membership.row].workspaceId
        content == trim(argContent)
    IN
    /\ UNCHANGED <<users, profiles, workspaces, members, channels>>
    /\ IF userId = NoUser
       THEN /\ resp' = Threw(op, userId, args, ErrNotAuthenticated)
            /\ UNCHANGED messages
       ELSE IF membership.err # OK
       THEN /\ resp' = Threw(op, userId, args, membership.err)
            /\ UNCHANGED messages
       ELSE IF content = <<>>
       THEN /\ resp' = Threw(op, userId, args, ErrMessageEmpty)
            /\ UNCHANGED messages
       ELSE IF ~Exists(channels, channelId)
       THEN /\ resp' = Threw(op, userId, args, ErrChannelNotFound)
            /\ UNCHANGED messages
       ELSE /\ messages' = Append(messages,
                    [workspaceId |-> workspaceId, channelId |-> channelId,
                     authorId |-> userId, content |-> content])
            /\ resp' = Id(op, userId, args, Len(messages) + 1)

\* variant: the content is validated before the membership is required
MessagesSendContentFirst(userId, channelId, argContent) ==
    LET op == "messages.send"
        args == Args(channelId, argContent)
        membership == requireWorkspaceForUser(userId)
        workspaceId == members[membership.row].workspaceId
        content == trim(argContent)
    IN
    /\ UNCHANGED <<users, profiles, workspaces, members, channels>>
    /\ IF userId = NoUser
       THEN /\ resp' = Threw(op, userId, args, ErrNotAuthenticated)
            /\ UNCHANGED messages
       ELSE IF content = <<>>
       THEN /\ resp' = Threw(op, userId, args, ErrMessageEmpty)
            /\ UNCHANGED messages
       ELSE IF membership.err # OK
       THEN /\ resp' = Threw(op, userId, args, membership.err)
            /\ UNCHANGED messages
       ELSE IF ~Exists(channels, channelId)
       THEN /\ resp' = Threw(op, userId, args, ErrChannelNotFound)
            /\ UNCHANGED messages
       ELSE IF channels[channelId].workspaceId # workspaceId
       THEN /\ resp' = Threw(op, userId, args, ErrChannelSend)
            /\ UNCHANGED messages
       ELSE /\ messages' = Append(messages,
                    [workspaceId |-> workspaceId, channelId |-> channelId,
                     authorId |-> userId, content |-> content])
            /\ resp' = Id(op, userId, args, Len(messages) + 1)

\* variant: the content is tested trimmed and stored as it came
MessagesSendUntrimmed(userId, channelId, argContent) ==
    LET op == "messages.send"
        args == Args(channelId, argContent)
        membership == requireWorkspaceForUser(userId)
        workspaceId == members[membership.row].workspaceId
        content == trim(argContent)
    IN
    /\ UNCHANGED <<users, profiles, workspaces, members, channels>>
    /\ IF userId = NoUser
       THEN /\ resp' = Threw(op, userId, args, ErrNotAuthenticated)
            /\ UNCHANGED messages
       ELSE IF membership.err # OK
       THEN /\ resp' = Threw(op, userId, args, membership.err)
            /\ UNCHANGED messages
       ELSE IF content = <<>>
       THEN /\ resp' = Threw(op, userId, args, ErrMessageEmpty)
            /\ UNCHANGED messages
       ELSE IF ~Exists(channels, channelId)
       THEN /\ resp' = Threw(op, userId, args, ErrChannelNotFound)
            /\ UNCHANGED messages
       ELSE IF channels[channelId].workspaceId # workspaceId
       THEN /\ resp' = Threw(op, userId, args, ErrChannelSend)
            /\ UNCHANGED messages
       ELSE /\ messages' = Append(messages,
                    [workspaceId |-> workspaceId, channelId |-> channelId,
                     authorId |-> userId, content |-> argContent])
            /\ resp' = Id(op, userId, args, Len(messages) + 1)

MessagesSend(userId, channelId, argContent) ==
    LET op == "messages.send"
        args == Args(channelId, argContent)
        membership == requireWorkspaceForUser(userId)
        workspaceId == members[membership.row].workspaceId
        content == trim(argContent)
    IN
    /\ UNCHANGED <<users, profiles, workspaces, members, channels>>
    /\ IF userId = NoUser
       THEN /\ resp' = Threw(op, userId, args, ErrNotAuthenticated)
            /\ UNCHANGED messages
       ELSE IF membership.err # OK
       THEN /\ resp' = Threw(op, userId, args, membership.err)
            /\ UNCHANGED messages
       ELSE IF content = <<>>
       THEN /\ resp' = Threw(op, userId, args, ErrMessageEmpty)
            /\ UNCHANGED messages
       ELSE IF ~Exists(channels, channelId)
       THEN /\ resp' = Threw(op, userId, args, ErrChannelNotFound)
            /\ UNCHANGED messages
       ELSE IF channels[channelId].workspaceId # workspaceId
       THEN /\ resp' = Threw(op, userId, args, ErrChannelSend)
            /\ UNCHANGED messages
       ELSE /\ messages' = Append(messages,
                    [workspaceId |-> workspaceId, channelId |-> channelId,
                     authorId |-> userId, content |-> content])
            /\ resp' = Id(op, userId, args, Len(messages) + 1)

SearchLimit == 50

\* variant: the search index is not narrowed by workspaceId
searchContentAnyWorkspace(searchText, workspaceId, channelId) ==
    {i \in Ids(messages) :
        /\ Words(messages[i].content) \cap Words(searchText) # {}
        /\ channelId # NoArg => messages[i].channelId = channelId}

\* the search index "search_content": the messages holding a word of the
\* search text, narrowed by the filter fields workspaceId and (optionally)
\* channelId
searchContent(searchText, workspaceId, channelId) ==
    {i \in Ids(messages) :
        /\ Words(messages[i].content) \cap Words(searchText) # {}
        /\ messages[i].workspaceId = workspaceId
        /\ channelId # NoArg => messages[i].channelId = channelId}

MessagesSearch(userId, argQuery, channelId) ==
    LET op == "messages.search"
        args == Args(channelId, argQuery)
        membership == assertSingleWorkspaceMembership(userId, NoArg)
        workspaceId == members[membership.row].workspaceId
        searchText == trim(argQuery)
        found == Take(SearchLimit, Asc(searchContent(searchText, workspaceId, channelId)))
    IN
    /\ UNCHANGED tables
    /\ resp' =
         IF userId = NoUser THEN List(op, userId, args, <<>>)
         ELSE IF membership.err # OK THEN Threw(op, userId, args, membership.err)
         ELSE IF membership.row = NoDoc THEN List(op, userId, args, <<>>)
         ELSE IF searchText = <<>> THEN List(op, userId, args, <<>>)
         ELSE IF channelId # NoArg /\ ~Exists(channels, channelId)
         THEN List(op, userId, args, <<>>)
         ELSE IF channelId # NoArg /\ channels[channelId].workspaceId # workspaceId
         THEN Threw(op, userId, args, ErrChannelSearch)
         ELSE List(op, userId, args,
                   [i \in DOMAIN found |-> foundMessage(found[i])])


-----------------------------------------------------------------------------
(* seed.ts: the seed data.                                                 *)

SEED_USERS ==
    << [email |-> <<"seed.owner.a", "@", "chatwave.test">>,
        name |-> <<"Seed", SP, "Owner", SP, "A">>],
       [email |-> <<"seed.member.a", "@", "chatwave.test">>,
        name |-> <<"Seed", SP, "Member", SP, "A">>],
       [email |-> <<"seed.owner.b", "@", "chatwave.test">>,
        name |-> <<"Seed", SP, "Owner", SP, "B">>],
       [email |-> <<"seed.member.b", "@", "chatwave.test">>,
        name |-> <<"Seed", SP, "Member", SP, "B">>] >>

WORKSPACE_CHANNELS == << <<"general">>, <<"product">>, <<"random">> >>

\* the two workspaces of the seed action, each with the positions of its
\* owner and its member in SEED_USERS
SEED_WORKSPACES ==
    << [name |-> <<"Seed", SP, "Workspace", SP, "A">>, owner |-> 1, member |-> 2],
       [name |-> <<"Seed", SP, "Workspace", SP, "B">>, owner |-> 3, member |-> 4] >>

\* the addMember calls of the seed action, in order
SEED_MEMBERS ==
    << [workspace |-> 1, user |-> 1, role |-> "owner"],
       [workspace |-> 1, user |-> 2, role |-> "member"],
       [workspace |-> 2, user |-> 3, role |-> "owner"],
       [workspace |-> 2, user |-> 4, role |-> "member"] >>

buildSeedMessages(workspaceName, channelName) ==
    << <<"Welcome", SP, "to", SP>> \o workspaceName \o <<".">>,
       <<"Use", SP, "#">> \o channelName
            \o <<SP, "for", SP, "focused", SP, "updates", ".">>,
       <<"Posting", SP, "a", SP, "seeded", SP, "message", SP, "so", SP, "this",
         SP, "channel", SP, "has", SP, "history", ".">>,
       <<"ChatWave", SP, "seed", SP, "completed", SP, "for", SP, "#">>
            \o channelName \o <<".">> >>

\* variant: the owner writes the first two messages, the member the rest
seedAuthorsOwnerFirst(ownerId, memberId) == <<ownerId, ownerId, memberId, memberId>>

\* authors = [ownerId, memberId, ownerId, memberId]
seedAuthors(ownerId, memberId) == <<ownerId, memberId, ownerId, memberId>>

-----------------------------------------------------------------------------
(* seed.ts: the internal queries and mutations.                            *)

findUserByEmail(email) == First({i \in Ids(users) : users[i].email = Some(email)})

findWorkspaceByName(name) == First({i \in Ids(workspaces) : workspaces[i].name = name})

findChannelByWorkspaceAndName(workspaceId, name) ==
    First(ChannelsByWorkspaceAndName(workspaceId, name))

\* variant: the count is taken over an empty index range
countMessagesUnread(channelId) == Cardinality({i \in MessagesByChannel(channelId) : FALSE})

\* variant: the count is taken over the whole table
countMessagesAnyChannel(channelId) == Len(messages)

countMessagesForChannel(channelId) == Cardinality(MessagesByChannel(channelId))

createChannelForSeed(workspaceId, name, createdBy) ==
    /\ channels' = Append(channels,
            [workspaceId |-> workspaceId, name |-> name, createdBy |-> createdBy])
    /\ resp' = Id("seed.createChannelForSeed", NoUser, Args(NoArg, name),
                  Len(channels) + 1)
    /\ UNCHANGED <<users, profiles, workspaces, members, messages>>

\* variant: the message overwrites the one the channel holds, if any
insertMessageForSeedReplace(workspaceId, channelId, authorId, content) ==
    LET held == First(MessagesByChannel(channelId))
        doc == [workspaceId |-> workspaceId, channelId |-> channelId,
                authorId |-> authorId, content |-> content]
    IN
    /\ messages' = IF held # NoDoc THEN [messages EXCEPT ![held] = doc]
                   ELSE Append(messages, doc)
    /\ resp' = Id("seed.insertMessageForSeed", NoUser, Args(channelId, content),
                  IF held # NoDoc THEN held ELSE Len(messages) + 1)
    /\ UNCHANGED <<users, profiles, workspaces, members, channels>>

insertMessageForSeed(workspaceId, channelId, authorId, content) ==
    /\ messages' = Append(messages,
            [workspaceId |-> workspaceId, channelId |-> channelId,
             authorId |-> authorId, content |-> content])
    /\ resp' = Id("seed.insertMessageForSeed", NoUser, Args(channelId, content),
                  Len(messages) + 1)
    /\ UNCHANGED <<users, profiles, workspaces, members, channels>>

upsertProfileForUser(userId, name) ==
    LET existing == First(ProfilesByUser(userId)) IN
    /\ profiles' =
         IF existing # NoDoc
         THEN [profiles EXCEPT ![existing].name = name]
         ELSE Append(profiles, [userId |-> userId, name |-> name, avatarId |-> None])
    /\ resp' = Null("seed.upsertProfileForUser", NoUser, Args(NoArg, name))
    /\ UNCHANGED <<users, workspaces, members, channels, messages>>

\* api.auth.signIn with flow "signUp": the auth library creates the account
\* and its user, or leaves the users table as it is (the account exists, or
\* the sign-up did not go through)
signIn(email) ==
    /\ \/ /\ findUserByEmail(email) = NoDoc
          /\ users' = Append(users, [email |-> Some(email), name |-> None])
       \/ UNCHANGED users
    /\ resp' = Null("auth.signIn", NoUser, Args(NoArg, email))
    /\ UNCHANGED <<profiles, workspaces, members, channels, messages>>

\* a runQuery of the seed action: reads only
runQuery(op, text, found) ==
    /\ resp' = (IF found = NoDoc THEN Null(op, NoUser, Args(NoArg, text))
                ELSE Id(op, NoUser, Args(NoArg, text), found))
    /\ UNCHANGED tables

-----------------------------------------------------------------------------
(* seed.ts: the seed action.  A frame is one execution's position (pc),    *)
(* loop indices (i: user, workspace, member or channel; w: workspace of    *)
(* the channel loop; j: message) and locals.                               *)

StartFrame ==
    [pc |-> "ensureUser.find", i |-> 1, w |-> 1, j |-> 1,
     userIds |-> <<NoDoc, NoDoc, NoDoc, NoDoc>>,
     workspaceIds |-> <<NoDoc, NoDoc>>,
     channelId |-> NoDoc, createdId |-> NoDoc]

Finished(r) == seed[r].pc \in {"done", "failed"}

Goto(r, f) == seed' = [seed EXCEPT ![r] = f]

Throw(r) == Goto(r, [seed[r] EXCEPT !.pc = "failed"])

\* ensureUser returned user: on to the next seed user, or to the profiles
UserEnsured(r, user) ==
    LET f == seed[r]
        g == [f EXCEPT !.userIds[f.i] = user]
    IN Goto(r, IF f.i < Len(SEED_USERS)
               THEN [g EXCEPT !.pc = "ensureUser.find", !.i = f.i + 1]
               ELSE [g EXCEPT !.pc = "upsertProfile", !.i = 1])

\* variant: the user looked up after the sign-up is not tested
ensureUserUntested(r) ==
    LET f == seed[r]
        email == SEED_USERS[f.i].email
        user == findUserByEmail(email)
    IN
    \/ /\ f.pc = "ensureUser.find"
       /\ runQuery("seed.findUserByEmail", email, user)
       /\ IF user # NoDoc THEN UserEnsured(r, user)
          ELSE Goto(r, [f EXCEPT !.pc = "ensureUser.signIn"])
    \/ /\ f.pc = "ensureUser.signIn"
       /\ signIn(email)
       /\ Goto(r, [f EXCEPT !.pc = "ensureUser.refind"])
    \/ /\ f.pc = "ensureUser.refind"
       /\ runQuery("seed.findUserByEmail", email, user)
       /\ UserEnsured(r, user)

ensureUser(r) ==
    LET f == seed[r]
        email == SEED_USERS[f.i].email
        user == findUserByEmail(email)
    IN
    \/ /\ f.pc = "ensureUser.find"
       /\ runQuery("seed.findUserByEmail", email, user)
       /\ IF user # NoDoc THEN UserEnsured(r, user)
          ELSE Goto(r, [f EXCEPT !.pc = "ensureUser.signIn"])
    \/ /\ f.pc = "ensureUser.signIn"
       /\ signIn(email)
       /\ Goto(r, [f EXCEPT !.pc = "ensureUser.refind"])
    \/ /\ f.pc = "ensureUser.refind"
       /\ runQuery("seed.findUserByEmail", email, user)
       /\ IF user # NoDoc THEN UserEnsured(r, user) ELSE Throw(r)

upsertProfiles(r) ==
    LET f == seed[r] IN
    /\ f.pc = "upsertProfile"
    /\ upsertProfileForUser(f.userIds[f.i], SEED_USERS[f.i].name)
    /\ Goto(r, IF f.i < Len(SEED_USERS)
               THEN [f EXCEPT !.i = f.i + 1]
               ELSE [f EXCEPT !.pc = "ensureWorkspace.find", !.i = 1])

\* ensureWorkspace returned workspace: on to the next one, or to the members
WorkspaceEnsured(r, workspace) ==
    LET f == seed[r]
        g == [f EXCEPT !.workspaceIds[f.i] = workspace, !.createdId = NoDoc]
    IN Goto(r, IF f.i < Len(SEED_WORKSPACES)
               THEN [g EXCEPT !.pc = "ensureWorkspace.find", !.i = f.i + 1]
               ELSE [g EXCEPT !.pc = "addMember", !.i = 1])

ensureWorkspace(r) ==
    LET f == seed[r]
        name == SEED_WORKSPACES[f.i].name
        createdBy == f.userIds[SEED_WORKSPACES[f.i].owner]
        workspace == findWorkspaceByName(name)
    IN
    \/ /\ f.pc = "ensureWorkspace.find"
       /\ runQuery("seed.findWorkspaceByName", name, workspace)
       /\ IF workspace # NoDoc THEN WorkspaceEnsured(r, workspace)
          ELSE Goto(r, [f EXCEPT !.pc = "ensureWorkspace.create"])
    \/ /\ f.pc = "ensureWorkspace.create"
       /\ createWorkspace(name, createdBy)
       /\ IF resp'.kind = "error" THEN Throw(r)
          ELSE Goto(r, [f EXCEPT !.pc = "ensureWorkspace.refind",
                                 !.createdId = resp'.ret[1]])
    \/ /\ f.pc = "ensureWorkspace.refind"
       /\ runQuery("seed.findWorkspaceByName", name, workspace)
       /\ IF workspace = NoDoc \/ workspace # f.createdId THEN Throw(r)
          ELSE WorkspaceEnsured(r, workspace)

addMembers(r) ==
    LET f == seed[r]
        m == SEED_MEMBERS[f.i]
    IN
    /\ f.pc = "addMember"
    /\ addMember(f.workspaceIds[m.workspace], f.userIds[m.user], m.role)
    /\ IF resp'.kind = "error" THEN Throw(r)
       ELSE Goto(r, IF f.i < Len(SEED_MEMBERS)
                    THEN [f EXCEPT !.i = f.i + 1]
                    ELSE [f EXCEPT !.pc = "ensureChannel.find", !.w = 1, !.i = 1])

\* the frame after the body of the channel loop: the next channel, the next
\* workspace, or the end of the action
NextChannel(f) ==
    LET g == [f EXCEPT !.channelId = NoDoc, !.createdId = NoDoc, !.j = 1] IN
    IF f.i < Len(WORKSPACE_CHANNELS)
    THEN [g EXCEPT !.pc = "ensureChannel.find", !.i = f.i + 1]
    ELSE IF f.w < Len(SEED_WORKSPACES)
    THEN [g EXCEPT !.pc = "ensureChannel.find", !.w = f.w + 1, !.i = 1]
    ELSE [g EXCEPT !.pc = "done", !.w = 1, !.i = 1]

ensureChannel(r) ==
    LET f == seed[r]
        workspaceId == f.workspaceIds[f.w]
        name == WORKSPACE_CHANNELS[f.i]
        createdBy == f.userIds[SEED_WORKSPACES[f.w].owner]
        channel == findChannelByWorkspaceAndName(workspaceId, name)
    IN
    \/ /\ f.pc = "ensureChannel.find"
       /\ runQuery("seed.findChannelByWorkspaceAndName", name, channel)
       /\ IF channel # NoDoc
          THEN Goto(r, [f EXCEPT !.pc = "countMessages", !.channelId = channel])
          ELSE Goto(r, [f EXCEPT !.pc = "ensureChannel.create"])
    \/ /\ f.pc = "ensureChannel.create"
       /\ createChannelForSeed(workspaceId, name, createdBy)
       /\ Goto(r, [f EXCEPT !.pc = "ensureChannel.refind",
                            !.createdId = resp'.ret[1]])
    \/ /\ f.pc = "ensureChannel.refind"
       /\ runQuery("seed.findChannelByWorkspaceAndName", name, channel)
       /\ IF channel = NoDoc \/ channel # f.createdId THEN Throw(r)
          ELSE Goto(r, [f EXCEPT !.pc = "countMessages", !.channelId = channel,
                                 !.createdId = NoDoc])

seedMessages(r) ==
    LET f == seed[r]
        workspace == SEED_WORKSPACES[f.w]
        messageCount == countMessagesForChannel(f.channelId)
        contents == buildSeedMessages(workspace.name, WORKSPACE_CHANNELS[f.i])
        authors == seedAuthors(f.userIds[workspace.owner], f.userIds[workspace.member])
    IN
    \/ /\ f.pc = "countMessages"
       /\ resp' = Id("seed.countMessagesForChannel", NoUser,
                     Args(f.channelId, <<>>), messageCount)
       /\ UNCHANGED tables
       /\ IF messageCount > 0 THEN Goto(r, NextChannel(f))
          ELSE Goto(r, [f EXCEPT !.pc = "insertMessage", !.j = 1])
    \/ /\ f.pc = "insertMessage"
       /\ insertMessageForSeed(f.workspaceIds[f.w], f.channelId, authors[f.j],
                               contents[f.j])
       /\ IF f.j < Len(contents) THEN Goto(r, [f EXCEPT !.j = f.j + 1])
          ELSE Goto(r, NextChannel(f))

-----------------------------------------------------------------------------
(* The backend under its clients: any signed-in user or anonymous caller   *)
(* calls any public function with any argument.                            *)

\* two accounts that signed up through the UI: one with a display name, one
\* with an email only
AppUsers ==
    << [email |-> Some(<<"ann", "@", "x.io">>), name |-> Some(<<"Ann">>)],
       [email |-> Some(<<"bob", "@", "x.io">>), name |-> None] >>

NameArgs == {<<SP, "dev", SP>>, <<SP>>}
ContentArgs == {<<SP, "hi", SP>>, <<SP>>}
QueryArgs == {<<"hi", SP>>, <<SP>>}

Callers == {NoUser} \cup Ids(users)
ChannelArgs == {NoDoc} \cup Ids(channels)

Bounded ==
    /\ Len(workspaces') <= MaxWorkspaces
    /\ Len(members') <= MaxMembers
    /\ Len(channels') <= MaxChannels
    /\ Len(messages') <= MaxMessages

Init ==
    /\ users = AppUsers
    /\ profiles = <<>>
    /\ workspaces = <<>>
    /\ members = <<>>
    /\ channels = <<>>
    /\ messages = <<>>
    /\ resp = NoCall
    /\ seed = <<>>
    /\ boot = <<>>
    /\ ui = <<>>
    /\ deploy = <<>>

Next ==
    \/ \E userId \in Callers :
         ensureForCurrentUser(userId) /\ Bounded /\ UNCHANGED <<seed, boot, ui, deploy>>
    \/ \E userId \in Callers :
         myWorkspace(userId) /\ UNCHANGED <<seed, boot, ui, deploy>>
    \/ \E userId \in Callers :
         ChannelsList(userId) /\ UNCHANGED <<seed, boot, ui, deploy>>
    \/ \E userId \in Callers, name \in NameArgs :
         ChannelsCreate(userId, name) /\ Bounded /\ UNCHANGED <<seed, boot, ui, deploy>>
    \/ \E userId \in Callers, channelId \in ChannelArgs :
         ChannelsGet(userId, channelId) /\ UNCHANGED <<seed, boot, ui, deploy>>
    \/ \E userId \in Callers, channelId \in ChannelArgs :
         MessagesList(userId, channelId) /\ UNCHANGED <<seed, boot, ui, deploy>>
    \/ \E userId \in Callers, channelId \in ChannelArgs, content \in ContentArgs :
         MessagesSend(userId, channelId, content) /\ Bounded /\ UNCHANGED <<seed, boot, ui, deploy>>
    \/ \E userId \in Callers, query \in QueryArgs, channelId \in {NoArg} \cup ChannelArgs :
         MessagesSearch(userId, query, channelId) /\ UNCHANGED <<seed, boot, ui, deploy>>

Spec == Init /\ [][Next]_vars


-----------------------------------------------------------------------------
(* The seed action on a fresh deployment, run SeedRuns times one after the *)
(* other (npm run seed, again and again).                                  *)

SeedRuns == 2

InitSeed ==
    /\ users = <<>>
    /\ profiles = <<>>
    /\ workspaces = <<>>
    /\ members = <<>>
    /\ channels = <<>>
    /\ messages = <<>>
    /\ resp = NoCall
    /\ seed = [r \in 1..SeedRuns |-> StartFrame]
    /\ boot = <<>>
    /\ ui = <<>>
    /\ deploy = <<>>

\* execution r starts when the executions before it have ended
InTurn(r) == \A q \in 1..(r - 1) : Finished(q)

NextSeed ==
    \/ \E r \in DOMAIN seed : InTurn(r) /\ ensureUser(r) /\ UNCHANGED <<boot, ui, deploy>>
    \/ \E r \in DOMAIN seed : InTurn(r) /\ upsertProfiles(r) /\ UNCHANGED <<boot, ui, deploy>>
    \/ \E r \in DOMAIN seed : InTurn(r) /\ ensureWorkspace(r) /\ UNCHANGED <<boot, ui, deploy>>
    \/ \E r \in DOMAIN seed : InTurn(r) /\ addMembers(r) /\ UNCHANGED <<boot, ui, deploy>>
    \/ \E r \in DOMAIN seed : InTurn(r) /\ ensureChannel(r) /\ UNCHANGED <<boot, ui, deploy>>
    \/ \E r \in DOMAIN seed : InTurn(r) /\ seedMessages(r) /\ UNCHANGED <<boot, ui, deploy>>

SpecSeed == InitSeed /\ [][NextSeed]_vars

-----------------------------------------------------------------------------
(* Overlapping executions of the seed action: every runQuery, runMutation  *)
(* and runAction is a transaction of its own, and the transactions of the  *)
(* executions interleave in any order.  The exploration stops inserting    *)
(* at RaceMaxMessages messages: room for both executions to fill the first *)
(* seed channel.                                                           *)

RaceMaxMessages == 8

NextSeedRace ==
    \/ \E r \in DOMAIN seed : ensureUser(r) /\ UNCHANGED <<boot, ui, deploy>>
    \/ \E r \in DOMAIN seed : upsertProfiles(r) /\ UNCHANGED <<boot, ui, deploy>>
    \/ \E r \in DOMAIN seed : ensureWorkspace(r) /\ UNCHANGED <<boot, ui, deploy>>
    \/ \E r \in DOMAIN seed : addMembers(r) /\ UNCHANGED <<boot, ui, deploy>>
    \/ \E r \in DOMAIN seed : ensureChannel(r) /\ UNCHANGED <<boot, ui, deploy>>
    \/ \E r \in DOMAIN seed : seedMessages(r) /\ Len(messages') <= RaceMaxMessages
            /\ UNCHANGED <<boot, ui, deploy>>

SpecSeedRace == InitSeed /\ [][NextSeedRace]_vars

-----------------------------------------------------------------------------
(* One execution of the seed action while the seed users, once they exist, *)
(* sign in and use the application, and while addMember is run for them   *)
(* with any workspace and the role of ClientRoles (the seed action writes  *)
(* memberships through addMember only).  The first ClientUsers accounts    *)
(* sign in; the exploration stops at ClientMaxWorkspaces workspaces,       *)
(* ClientMaxChannels channels and ClientMaxMessages messages.              *)

ClientUsers == 2
ClientMaxWorkspaces == 3
ClientMaxChannels == 3
ClientMaxMessages == 1

\* the users that sign in: the first ClientUsers accounts
Clients == {userId \in Ids(users) : userId <= ClientUsers}

ClientBounded ==
    /\ Len(workspaces') <= ClientMaxWorkspaces
    /\ Len(channels') <= ClientMaxChannels
    /\ Len(messages') <= ClientMaxMessages

\* the role an operator's addMember call gives a signed-in account
ClientRoles == {"member"}

InitSeedClients ==
    /\ users = <<>>
    /\ profiles = <<>>
    /\ workspaces = <<>>
    /\ members = <<>>
    /\ channels = <<>>
    /\ messages = <<>>
    /\ resp = NoCall
    /\ seed = <<StartFrame>>
    /\ boot = <<>>
    /\ ui = <<>>
    /\ deploy = <<>>

NextSeedClients ==
    \/ \E r \in DOMAIN seed : ensureUser(r) /\ UNCHANGED <<boot, ui, deploy>>
    \/ \E r \in DOMAIN seed : upsertProfiles(r) /\ UNCHANGED <<boot, ui, deploy>>
    \/ \E r \in DOMAIN seed : ensureWorkspace(r) /\ ClientBounded /\ UNCHANGED <<boot, ui, deploy>>
    \/ \E r \in DOMAIN seed : addMembers(r) /\ UNCHANGED <<boot, ui, deploy>>
    \/ \E r \in DOMAIN seed : ensureChannel(r) /\ ClientBounded /\ UNCHANGED <<boot, ui, deploy>>
    \/ \E r \in DOMAIN seed : seedMessages(r) /\ ClientBounded /\ UNCHANGED <<boot, ui, deploy>>
    \/ \E userId \in Clients :
         ensureForCurrentUser(userId) /\ ClientBounded /\ UNCHANGED <<seed, boot, ui, deploy>>
    \/ \E workspaceId \in Ids(workspaces), userId \in Clients, role \in ClientRoles :
         addMember(workspaceId, userId, role) /\ UNCHANGED <<seed, boot, ui, deploy>>
    \/ \E userId \in Clients, name \in {<<"general">>} :
         ChannelsCreate(userId, name) /\ ClientBounded /\ UNCHANGED <<seed, boot, ui, deploy>>

SpecSeedClients == InitSeedClients /\ [][NextSeedClients]_vars


-----------------------------------------------------------------------------
(* First sign-in: BootCalls clients of each account (tabs, devices) call   *)
(* ensureForCurrentUser at once.  Each call is one transaction; the        *)
(* transactions are serialized in any order, among channel creations.      *)

BootCalls == 3

Pending == [state |-> "pending", workspaceId |-> NoDoc, created |-> FALSE]

InitBoot ==
    /\ users = AppUsers
    /\ profiles = <<>>
    /\ workspaces = <<>>
    /\ members = <<>>
    /\ channels = <<>>
    /\ messages = <<>>
    /\ resp = NoCall
    /\ seed = <<>>
    /\ boot = [call \in Ids(AppUsers) \X (1..BootCalls) |-> Pending]
    /\ ui = <<>>
    /\ deploy = <<>>

\* call n of the account's clients: void ensureForCurrentUser({})
Bootstrap(userId, n) ==
    /\ boot[<<userId, n>>].state = "pending"
    /\ ensureForCurrentUser(userId)
    /\ boot' = [boot EXCEPT ![<<userId, n>>] =
                    IF resp'.kind = "error"
                    THEN [state |-> "threw", workspaceId |-> NoDoc, created |-> FALSE]
                    ELSE [state |-> "returned", workspaceId |-> resp'.ret[1],
                          created |-> resp'.created]]
    /\ UNCHANGED <<seed, ui, deploy>>

NextBoot ==
    \/ \E userId \in Ids(users), n \in 1..BootCalls : Bootstrap(userId, n)
    \/ \E userId \in Ids(users), name \in {<<"general">>, <<SP, "dev">>} :
         ChannelsCreate(userId, name) /\ Bounded /\ UNCHANGED <<seed, boot, ui, deploy>>

SpecBoot == InitBoot /\ [][NextBoot]_vars

-----------------------------------------------------------------------------
(* The backend when membership rows are also written past its functions    *)
(* (the dashboard, an import): a user who has a row is given another.      *)

BypassMaxMembers == 3
BypassMaxChannels == 2
BypassMaxMessages == 1

BypassBounded ==
    /\ Len(workspaces') <= MaxWorkspaces
    /\ Len(members') <= BypassMaxMembers
    /\ Len(channels') <= BypassMaxChannels
    /\ Len(messages') <= BypassMaxMessages

bypassInsert(workspaceId, userId, role) ==
    /\ MembersByUser(userId) # {}
    /\ members' = Append(members,
            [workspaceId |-> workspaceId, userId |-> userId, role |-> role])
    /\ resp' = Id("bypass.insert", userId, Args(workspaceId, <<role>>), Len(members) + 1)
    /\ UNCHANGED <<users, profiles, workspaces, channels, messages>>

\* a function that looks the caller's membership up with getMembershipForUser
GetMembershipForUser(userId) ==
    /\ resp' = (IF getMembershipForUser(userId) = NoDoc
                THEN Null("getMembershipForUser", userId, NoArgs)
                ELSE Id("getMembershipForUser", userId, NoArgs,
                        getMembershipForUser(userId)))
    /\ UNCHANGED tables

\* a function that checks the caller with isMemberOfWorkspace
IsMemberOfWorkspace(userId, workspaceId) ==
    LET answer == isMemberOfWorkspace(userId, workspaceId)
        args == Args(workspaceId, <<>>)
    IN
    /\ resp' = (IF answer.err # OK THEN Threw("isMemberOfWorkspace", userId, args, answer.err)
                ELSE Resp("isMemberOfWorkspace", userId, args, "bool", OK,
                          <<answer.ret>>, FALSE))
    /\ UNCHANGED tables

NextBypass ==
    \/ \E workspaceId \in Ids(workspaces), userId \in Ids(users), role \in workspaceRole :
         bypassInsert(workspaceId, userId, role) /\ BypassBounded /\ UNCHANGED <<seed, boot, ui, deploy>>
    \/ \E userId \in Ids(users) :
         GetMembershipForUser(userId) /\ UNCHANGED <<seed, boot, ui, deploy>>
    \/ \E userId \in Ids(users), workspaceId \in Ids(workspaces) :
         IsMemberOfWorkspace(userId, workspaceId) /\ UNCHANGED <<seed, boot, ui, deploy>>
    \/ \E workspaceId \in Ids(workspaces), userId \in Ids(users), role \in workspaceRole :
         addMember(workspaceId, userId, role) /\ BypassBounded /\ UNCHANGED <<seed, boot, ui, deploy>>
    \/ \E userId \in Callers :
         ensureForCurrentUser(userId) /\ BypassBounded /\ UNCHANGED <<seed, boot, ui, deploy>>
    \/ \E userId \in Callers :
         myWorkspace(userId) /\ UNCHANGED <<seed, boot, ui, deploy>>
    \/ \E userId \in Callers :
         ChannelsList(userId) /\ UNCHANGED <<seed, boot, ui, deploy>>
    \/ \E userId \in Callers, name \in NameArgs :
         ChannelsCreate(userId, name) /\ BypassBounded /\ UNCHANGED <<seed, boot, ui, deploy>>
    \/ \E userId \in Callers, channelId \in ChannelArgs :
         ChannelsGet(userId, channelId) /\ UNCHANGED <<seed, boot, ui, deploy>>
    \/ \E userId \in Callers, channelId \in ChannelArgs :
         MessagesList(userId, channelId) /\ UNCHANGED <<seed, boot, ui, deploy>>
    \/ \E userId \in Callers, channelId \in ChannelArgs, content \in ContentArgs :
         MessagesSend(userId, channelId, content) /\ BypassBounded /\ UNCHANGED <<seed, boot, ui, deploy>>
    \/ \E userId \in Callers, query \in QueryArgs, channelId \in {NoArg} \cup ChannelArgs :
         MessagesSearch(userId, query, channelId) /\ UNCHANGED <<seed, boot, ui, deploy>>

SpecBypass == Init /\ [][NextBypass]_vars


-----------------------------------------------------------------------------
(* ChatApp.tsx, WorkspaceBootstrap: UiTabs browser tabs of one signed-in    *)
(* account.  A tab holds the value of useQuery(myWorkspace) it rendered     *)
(* last, its three useState values and the promise of the mutation it       *)
(* called.  React runs the effect of a render before it renders again.      *)

UiTabs == 2

\* the account signed in on the tabs
UiUser == 1

\* the first render: the query is loading, the state is the useState defaults
Mounted ==
    [workspace |-> "undefined", attempted |-> FALSE, settingUp |-> FALSE,
     error |-> FALSE, call |-> "none"]

InitUi ==
    /\ users = AppUsers
    /\ profiles = <<>>
    /\ workspaces = <<>>
    /\ members = <<>>
    /\ channels = <<>>
    /\ messages = <<>>
    /\ resp = NoCall
    /\ seed = <<>>
    /\ boot = <<>>
    /\ ui = [tab \in 1..UiTabs |-> Mounted]
    /\ deploy = <<>>

\* the effect has something to do: workspace === null and not attempted
EffectPending(tab) == ui[tab].workspace = "null" /\ ~ui[tab].attempted

\* the subscription delivers the current result of myWorkspace and the tab
\* renders it
QueryUpdate(tab) ==
    LET result == myWorkspaceHandler(UiUser).kind IN
    /\ ~EffectPending(tab)
    /\ result # "error"
    /\ ui[tab].workspace # (IF result = "null" THEN "null" ELSE "doc")
    /\ ui' = [ui EXCEPT ![tab].workspace = IF result = "null" THEN "null" ELSE "doc"]
    /\ UNCHANGED <<tables, resp, seed, boot, deploy>>

\* variant: the effect does not look at attempted
EffectEveryRender(tab) ==
    /\ ui[tab].workspace = "null"
    /\ ui[tab].call # "pending"
    /\ ui' = [ui EXCEPT ![tab].attempted = TRUE, ![tab].settingUp = TRUE,
                        ![tab].error = FALSE, ![tab].call = "pending"]
    /\ UNCHANGED <<tables, resp, seed, boot, deploy>>

\* the body of useEffect: the mutation is sent
Effect(tab) ==
    /\ EffectPending(tab)
    /\ ui' = [ui EXCEPT ![tab].attempted = TRUE, ![tab].settingUp = TRUE,
                        ![tab].error = FALSE, ![tab].call = "pending"]
    /\ UNCHANGED <<tables, resp, seed, boot, deploy>>

\* the backend runs the mutation and the promise is fulfilled or rejected
Mutate(tab) ==
    /\ ui[tab].call = "pending"
    /\ ensureForCurrentUser(UiUser)
    /\ ui' = [ui EXCEPT ![tab].call = IF resp'.kind = "error" THEN "rejected"
                                      ELSE "fulfilled"]
    /\ UNCHANGED <<seed, boot, deploy>>

\* the request does not reach the backend and the promise is rejected
Lost(tab) ==
    /\ ui[tab].call = "pending"
    /\ ui' = [ui EXCEPT ![tab].call = "rejected"]
    /\ UNCHANGED <<tables, resp, seed, boot, deploy>>

\* variant: .finally(...) is left out, settingUp stays set
SettleWithoutFinally(tab) ==
    /\ ui[tab].call \in {"fulfilled", "rejected"}
    /\ ui' = [ui EXCEPT ![tab].error = (ui[tab].call = "rejected"),
                        ![tab].call = "settled"]
    /\ UNCHANGED <<tables, resp, seed, boot, deploy>>

\* .catch(...) and .finally(...)
Settle(tab) ==
    /\ ui[tab].call \in {"fulfilled", "rejected"}
    /\ ui' = [ui EXCEPT ![tab].error = (ui[tab].call = "rejected"),
                        ![tab].settingUp = FALSE,
                        ![tab].call = "settled"]
    /\ UNCHANGED <<tables, resp, seed, boot, deploy>>

\* what the component returns: the setup screen, or its children
SetupScreen(tab) == ui[tab].workspace \in {"undefined", "null"} \/ ui[tab].settingUp
ChildrenRendered(tab) == ~SetupScreen(tab)

\* the "Retry setup" button, shown on the setup screen with the error
Retry(tab) ==
    /\ SetupScreen(tab)
    /\ ui[tab].error
    /\ ui' = [ui EXCEPT ![tab].attempted = FALSE, ![tab].error = FALSE]
    /\ UNCHANGED <<tables, resp, seed, boot, deploy>>

NextUi ==
    \/ \E tab \in 1..UiTabs : QueryUpdate(tab)
    \/ \E tab \in 1..UiTabs : Effect(tab)
    \/ \E tab \in 1..UiTabs : Mutate(tab)
    \/ \E tab \in 1..UiTabs : Lost(tab)
    \/ \E tab \in 1..UiTabs : Settle(tab)
    \/ \E tab \in 1..UiTabs : Retry(tab)

\* the subscription, the effect, the backend and the promise callbacks all
\* run when they can; nobody has to press Retry
SpecUi ==
    /\ InitUi
    /\ [][NextUi]_vars
    /\ \A tab \in 1..UiTabs :
        /\ WF_ui(QueryUpdate(tab))
        /\ WF_ui(Effect(tab))
        /\ WF_ui(Mutate(tab) \/ Lost(tab))
        /\ WF_ui(Settle(tab))


-----------------------------------------------------------------------------
(* The internal mutations createWorkspace and addMember, run with any       *)
(* arguments (from the dashboard, the CLI or an action), among the          *)
(* mutations signed-in users call.                                          *)

AdminMaxWorkspaces == 2
AdminMaxMembers == 2
AdminMaxChannels == 2
AdminMaxMessages == 1

AdminBounded ==
    /\ Len(workspaces') <= AdminMaxWorkspaces
    /\ Len(members') <= AdminMaxMembers
    /\ Len(channels') <= AdminMaxChannels
    /\ Len(messages') <= AdminMaxMessages

NextAdmin ==
    \* args.name: a name inside whitespace, a blank name; args.createdBy: the
    \* first account
    \/ \E name \in {<<SP, "Team", SP>>, <<SP>>}, createdBy \in {Min(Ids(users))} :
         createWorkspace(name, createdBy) /\ AdminBounded
            /\ UNCHANGED <<seed, boot, ui, deploy>>
    \/ \E workspaceId \in Ids(workspaces), userId \in Ids(users), role \in workspaceRole :
         addMember(workspaceId, userId, role) /\ AdminBounded
            /\ UNCHANGED <<seed, boot, ui, deploy>>
    \/ \E userId \in Callers :
         ensureForCurrentUser(userId) /\ AdminBounded
            /\ UNCHANGED <<seed, boot, ui, deploy>>
    \/ \E userId \in Callers, name \in NameArgs :
         ChannelsCreate(userId, name) /\ AdminBounded
            /\ UNCHANGED <<seed, boot, ui, deploy>>
    \/ \E userId \in Callers, channelId \in ChannelArgs, content \in ContentArgs :
         MessagesSend(userId, channelId, content) /\ AdminBounded
            /\ UNCHANGED <<seed, boot, ui, deploy>>

SpecAdmin == Init /\ [][NextAdmin]_vars


-----------------------------------------------------------------------------
(* A busy channel: one account bootstraps and sends up to                   *)
(* SearchMaxMessages messages to its channel; anybody searches.             *)

SearchMaxMessages == 52

\* the account that writes
Writers == {userId \in Ids(users) : userId = Min(Ids(users))}

NextSearch ==
    \/ \E userId \in Writers :
         ensureForCurrentUser(userId) /\ UNCHANGED <<seed, boot, ui, deploy>>
    \/ \E userId \in Writers, channelId \in Ids(channels), content \in ContentArgs :
         MessagesSend(userId, channelId, content)
            /\ Len(messages') <= SearchMaxMessages
            /\ UNCHANGED <<seed, boot, ui, deploy>>
    \/ \E userId \in Callers, query \in QueryArgs, channelId \in {NoArg} \cup ChannelArgs :
         MessagesSearch(userId, query, channelId) /\ UNCHANGED <<seed, boot, ui, deploy>>

SpecSearch == Init /\ [][NextSearch]_vars


-----------------------------------------------------------------------------
(* scripts/deploy-env.sh: one run of the script, from the end of argument   *)
(* parsing (line 115) to its exit.  The script runs under set -euo pipefail *)
(* (line 3).  Every external command either succeeds or fails; deploy.ran   *)
(* is the list of the commands the run has invoked, with their outcome.     *)

max_attempts == 20
SleepSeconds == 3

\* the commands require_cmd is called with, in the order of lines 127-130
RequiredCmds == <<"git", "fly", "npx", "curl">>

\* a non-zero exit status of a failed command
FailStatus == {1, 2}

\* keys: the auth keys set on the target Convex deployment
Started(env, flyApp, previewName, key, path, jwt, keys) ==
    [pc |-> "args", DEPLOY_ENV |-> env, FLY_APP |-> flyApp,
     PREVIEW_NAME |-> previewName, CONVEX_DEPLOY_KEY |-> key, path |-> path,
     CONVEX_JWT |-> jwt, keys |-> keys, cmd |-> 1, attempt |-> 0, slept |-> 0,
     ran |-> <<>>, stdout |-> <<>>, stderr |-> <<>>,
     exited |-> FALSE, code |-> 0]

InitDeploy ==
    /\ users = <<>>
    /\ profiles = <<>>
    /\ workspaces = <<>>
    /\ members = <<>>
    /\ channels = <<>>
    /\ messages = <<>>
    /\ resp = NoCall
    /\ seed = <<>>
    /\ boot = <<>>
    /\ ui = <<>>
    /\ LET Commands == {RequiredCmds[i] : i \in DOMAIN RequiredCmds}
       IN deploy \in
            {Started(env, flyApp, previewName, key, path, jwt, keys) :
               \* values of --env, --fly-app and --preview-name after the
               \* parsing loop
               env \in {"", "prod", "dev", "preview", "staging"},
               flyApp \in {"", "chatwave"},
               previewName \in {"", "pr-7"},
               \* CONVEX_DEPLOY_KEY is set
               key \in BOOLEAN,
               \* the commands found on PATH: all of them, or all but one
               path \in {Commands} \cup {Commands \ {c} : c \in Commands},
               \* CONVEX_JWT_PRIVATE_KEY and CONVEX_JWKS are set
               jwt \in BOOLEAN,
               keys \in SUBSET {"JWT_PRIVATE_KEY", "JWKS"}}

FLY_URL(d) == "https://" \o d.FLY_APP \o ".fly.dev"

\* err(): the message on stderr, exit 1
err(d, msg) ==
    [d EXCEPT !.pc = "exit", !.exited = TRUE, !.code = 1,
              !.stderr = Append(@, "Error: " \o msg)]

\* set -e: a failed simple command ends the script with that command's status
errexit(d, status) ==
    [d EXCEPT !.pc = "exit", !.exited = TRUE, !.code = status]

Ran(d, cmd, ok) == [d EXCEPT !.ran = Append(@, [cmd |-> cmd, ok |-> ok])]

Echo(d, line) == [d EXCEPT !.stdout = Append(@, line)]

Step(d, pc) == [d EXCEPT !.pc = pc]

\* lines 117-123
ValidateArgs ==
    /\ deploy.pc = "args"
    /\ deploy' =
         IF deploy.DEPLOY_ENV = "" THEN err(deploy, "--env is required")
         ELSE IF deploy.FLY_APP = "" THEN err(deploy, "--fly-app is required")
         ELSE IF deploy.DEPLOY_ENV \notin {"prod", "dev", "preview"}
              THEN err(deploy, "--env must be one of: prod, dev, preview")
         ELSE IF deploy.DEPLOY_ENV = "preview" /\ deploy.PREVIEW_NAME = ""
              THEN err(deploy, "--preview-name is required when --env preview")
         ELSE Step(deploy, "key")

\* the check of line 125 is missing
CheckDeployKeySkipped ==
    /\ deploy.pc = "key"
    /\ deploy' = Step(deploy, "require")

\* line 125
CheckDeployKey ==
    /\ deploy.pc = "key"
    /\ deploy' = IF deploy.CONVEX_DEPLOY_KEY
                 THEN Step(deploy, "require")
                 ELSE err(deploy, "CONVEX_DEPLOY_KEY must be set")

\* one call of require_cmd, lines 127-130
require_cmd ==
    /\ deploy.pc = "require"
    /\ deploy' =
         IF RequiredCmds[deploy.cmd] \in deploy.path
         THEN IF deploy.cmd = Len(RequiredCmds)
              THEN Step(deploy, "whoami")
              ELSE [deploy EXCEPT !.cmd = @ + 1]
         ELSE err(deploy, "Required command not found: " \o RequiredCmds[deploy.cmd])

\* lines 136-138
FlyAuth ==
    /\ deploy.pc = "whoami"
    /\ \E ok \in BOOLEAN :
         deploy' =
           IF ok
           THEN Step(Ran(deploy, "fly auth whoami", TRUE), "appdir")
           ELSE err(Ran(deploy, "fly auth whoami", FALSE),
                    "Fly authentication is missing. Set FLY_API_TOKEN or run 'fly auth login'.")

\* lines 140-142
CheckAppDir ==
    /\ deploy.pc = "appdir"
    /\ \E isDir \in BOOLEAN :
         deploy' = IF isDir
                   THEN Step(deploy, "fly_app")
                   ELSE err(deploy, "App directory not found")

\* lines 144-149: fly status, and fly apps create when the status check fails
EnsureFlyApp ==
    /\ deploy.pc = "fly_app"
    /\ \E status \in BOOLEAN, created \in BOOLEAN, failed \in FailStatus :
         LET d1 == Echo(deploy, "==> Ensuring Fly app exists: " \o deploy.FLY_APP)
             d2 == Ran(d1, "fly status", status)
         IN deploy' =
              IF status THEN Step(d2, "convex")
              ELSE IF created
                   THEN Step(Ran(d2, "fly apps create", TRUE), "convex")
                   ELSE errexit(Ran(d2, "fly apps create", FALSE), failed)

\* lines 151-173
DeployConvex ==
    /\ deploy.pc = "convex"
    /\ \E ok \in BOOLEAN, url \in BOOLEAN :
         LET d1 == Echo(deploy, "==> Deploying Convex (" \o deploy.DEPLOY_ENV \o ")")
             d2 == Echo(Ran(d1, "convex deploy", ok), "DEPLOY_OUTPUT")
         IN deploy' =
              IF ~ok THEN err(d2, "Convex deploy failed")
              ELSE IF ~url
                   THEN err(d2, "Unable to determine Convex URL from deploy output")
                   ELSE Step(d2, "auth_envs")

\* lines 35-64, called at 175-181.  listed: the keys that the output of
\* `convex env list` shows; a failed listing shows nothing (2>/dev/null,
\* || true).  A `convex env set` that succeeds sets the key to the value of
\* the environment variable.
ensure_auth_envs ==
    /\ deploy.pc = "auth_envs"
    /\ \E listOk \in BOOLEAN,
          setJwt \in BOOLEAN, setJwks \in BOOLEAN, failed \in FailStatus :
         LET listed == IF listOk THEN deploy.keys ELSE {}
             has_jwt == "JWT_PRIVATE_KEY" \in listed
             has_jwks == "JWKS" \in listed
             d1 == Ran(deploy, "convex env list", listOk)
             d2 == Echo(d1, "==> Seeding missing auth env vars")
             d3 == [Ran(d2, "convex env set JWT_PRIVATE_KEY", setJwt) EXCEPT
                      !.keys = IF setJwt THEN @ \cup {"JWT_PRIVATE_KEY"} ELSE @]
             d4 == [Ran(d3, "convex env set JWKS", setJwks) EXCEPT
                      !.keys = IF setJwks THEN @ \cup {"JWKS"} ELSE @]
         IN deploy' =
              IF has_jwt /\ has_jwks THEN Step(d1, "seed")
              ELSE IF deploy.CONVEX_JWT
                   THEN IF ~setJwt THEN errexit(d3, failed)
                        ELSE IF ~setJwks THEN errexit(d4, failed)
                        ELSE Step(d4, "seed")
                   ELSE err(d1, "Deployment is missing JWT_PRIVATE_KEY/JWKS. Set CONVEX_JWT_PRIVATE_KEY and CONVEX_JWKS.")

\* set -e does not act on the seed command: the script carries on
run_seedUnchecked ==
    /\ deploy.pc = "seed"
    /\ \E ok \in BOOLEAN :
         deploy' = Step(Ran(Echo(deploy, "==> Running seed"),
                            "convex run seed", ok), "fly_deploy")

\* lines 66-73, called at 175-181
run_seed ==
    /\ deploy.pc = "seed"
    /\ \E ok \in BOOLEAN, failed \in FailStatus :
         LET d1 == Ran(Echo(deploy, "==> Running seed"), "convex run seed", ok)
         IN deploy' = IF ok THEN Step(d1, "fly_deploy") ELSE errexit(d1, failed)

\* lines 183-191
DeployFly ==
    /\ deploy.pc = "fly_deploy"
    /\ \E ok \in BOOLEAN, failed \in FailStatus :
         LET d1 == Ran(Echo(deploy, "==> Deploying Fly app " \o deploy.FLY_APP),
                       "fly deploy", ok)
         IN deploy' = IF ok THEN Step(d1, "smoke") ELSE errexit(d1, failed)

\* lines 193-195: the loop starts with attempt = 1
SmokeCheck ==
    /\ deploy.pc = "smoke"
    /\ deploy' = [Echo(deploy, "==> HTTP smoke check: " \o FLY_URL(deploy))
                    EXCEPT !.pc = "probe", !.attempt = 1]

\* the last failed attempt is not told apart: the loop sleeps and runs out
SmokeProbeUnbounded ==
    /\ deploy.pc = "probe"
    /\ \E ok \in BOOLEAN :
         deploy' = IF ok THEN Step(Ran(deploy, "curl", TRUE), "complete")
                   ELSE Step(Ran(deploy, "curl", FALSE), "sleep")

\* lines 196-201: one curl; break on success, err on the last failed attempt
SmokeProbe ==
    /\ deploy.pc = "probe"
    /\ \E ok \in BOOLEAN :
         LET d1 == Ran(deploy, "curl", ok)
         IN deploy' =
              IF ok THEN Step(d1, "complete")
              ELSE IF deploy.attempt = max_attempts
                   THEN err(d1, "Smoke check failed for " \o FLY_URL(deploy))
                   ELSE Step(d1, "sleep")

\* lines 202-203: sleep 3, then the next value of seq 1 max_attempts, if any
SmokeSleep ==
    /\ deploy.pc = "sleep"
    /\ LET d1 == [Ran(deploy, "sleep", TRUE) EXCEPT !.slept = @ + SleepSeconds]
       IN deploy' = IF deploy.attempt = max_attempts
                    THEN Step(d1, "complete")
                    ELSE [d1 EXCEPT !.pc = "probe", !.attempt = @ + 1]

\* the lines of lines 207-210
SuccessLines(d) ==
    <<"ENV=" \o d.DEPLOY_ENV, "FLY_APP=" \o d.FLY_APP,
      "FLY_URL=" \o FLY_URL(d), "CONVEX_URL=">>

PreviewLine(d) == "CONVEX_PREVIEW_NAME=" \o d.PREVIEW_NAME

\* lines 205-213, and the end of the script
PrintSuccess ==
    /\ deploy.pc = "complete"
    /\ LET out == deploy.stdout \o <<"", "Deployment complete.">>
                     \o SuccessLines(deploy)
                     \o (IF deploy.DEPLOY_ENV = "preview"
                         THEN <<PreviewLine(deploy)>> ELSE <<>>)
       IN deploy' = [deploy EXCEPT !.stdout = out, !.pc = "exit",
                                   !.exited = TRUE, !.code = 0]

NextDeploy ==
    \/ ValidateArgs /\ UNCHANGED <<tables, resp, seed, boot, ui>>
    \/ CheckDeployKey /\ UNCHANGED <<tables, resp, seed, boot, ui>>
    \/ require_cmd /\ UNCHANGED <<tables, resp, seed, boot, ui>>
    \/ FlyAuth /\ UNCHANGED <<tables, resp, seed, boot, ui>>
    \/ CheckAppDir /\ UNCHANGED <<tables, resp, seed, boot, ui>>
    \/ EnsureFlyApp /\ UNCHANGED <<tables, resp, seed, boot, ui>>
    \/ DeployConvex /\ UNCHANGED <<tables, resp, seed, boot, ui>>
    \/ ensure_auth_envs /\ UNCHANGED <<tables, resp, seed, boot, ui>>
    \/ run_seed /\ UNCHANGED <<tables, resp, seed, boot, ui>>
    \/ DeployFly /\ UNCHANGED <<tables, resp, seed, boot, ui>>
    \/ SmokeCheck /\ UNCHANGED <<tables, resp, seed, boot, ui>>
    \/ SmokeProbe /\ UNCHANGED <<tables, resp, seed, boot, ui>>
    \/ SmokeSleep /\ UNCHANGED <<tables, resp, seed, boot, ui>>
    \/ PrintSuccess /\ UNCHANGED <<tables, resp, seed, boot, ui>>

\* every command the script runs returns, so the script keeps going
SpecDeploy == InitDeploy /\ [][NextDeploy]_vars /\ WF_deploy(NextDeploy)


-----------------------------------------------------------------------------
(* scripts/deploy-preview.sh: one run of the script, from the end of        *)
(* argument parsing (line 64) to its exit, kept in the variable deploy.     *)
(* The script runs under set -euo pipefail.  A command the script starts    *)
(* without a redirection writes to the script's own stdout and stderr.      *)

InitPreview ==
    /\ users = <<>>
    /\ profiles = <<>>
    /\ workspaces = <<>>
    /\ members = <<>>
    /\ channels = <<>>
    /\ messages = <<>>
    /\ resp = NoCall
    /\ seed = <<>>
    /\ boot = <<>>
    /\ ui = <<>>
    /\ deploy \in
         [pc : {"format"},
          \* --format after the parsing loop
          FORMAT : {"human", "json", "dotenv", "yaml"},
          \* CONVEX_DEPLOY_KEY_PREVIEW is set
          CONVEX_DEPLOY_KEY_PREVIEW : BOOLEAN,
          \* the checkout: HEAD is detached; the branch has an upstream, and
          \* is BEHIND and AHEAD of it by so many commits
          detached : BOOLEAN, upstream : BOOLEAN, BEHIND : 0..1, AHEAD : 0..1,
          DEPLOY_OUTPUT : {""},
          ran : {<<>>}, stdout : {<<>>}, stderr : {<<>>},
          exited : {FALSE}, code : {0}]

\* lines 34-40
log(d, line) ==
    IF d.FORMAT = "human" THEN Echo(d, line)
    ELSE [d EXCEPT !.stderr = Append(@, line)]

\* lines 66-70
CheckFormat ==
    /\ deploy.pc = "format"
    /\ deploy' =
         IF deploy.FORMAT \notin {"human", "json", "dotenv"}
         THEN err(deploy, "--format must be one of: human, json, dotenv")
         ELSE IF ~deploy.CONVEX_DEPLOY_KEY_PREVIEW
              THEN err(deploy, "CONVEX_DEPLOY_KEY_PREVIEW must be set")
              ELSE Step(deploy, "branch")

\* lines 72-90: the auth keys are read from the dev deployment when the
\* environment does not hold both (output captured, failure ignored); then
\* the branch name
CheckBranch ==
    /\ deploy.pc = "branch"
    /\ \E keys \in BOOLEAN, listed \in BOOLEAN, ok \in BOOLEAN, failed \in FailStatus :
         LET d1 == IF keys THEN deploy ELSE Ran(deploy, "convex env list", listed)
             d2 == Ran(d1, "git rev-parse --abbrev-ref HEAD", ok)
         IN deploy' =
              IF ~ok THEN errexit(d2, failed)
              ELSE IF deploy.detached
                   THEN err(d2, "Detached HEAD is not supported for preview deploys. Check out a branch and retry.")
                   ELSE Step(d2, "upstream")

\* a failed git push does not end the script
PushBranchUnchecked ==
    /\ deploy.pc = "upstream"
    /\ \E counted \in BOOLEAN, pushed \in BOOLEAN, said \in BOOLEAN,
          failed \in FailStatus :
         LET d1 == Ran(deploy, "git rev-parse --abbrev-ref @{upstream}", deploy.upstream)
             d2 == Ran(d1, "git rev-list --left-right --count", counted)
             d3 == log(d2, "==> Pushing unpushed commit(s) to origin")
             d4 == log(d1, "==> Branch has no upstream. Pushing and setting upstream to origin")
             push(d) == IF said THEN Echo(Ran(d, "git push", pushed), "git push: stdout")
                        ELSE Ran(d, "git push", pushed)
         IN deploy' =
              IF deploy.upstream
              THEN IF ~counted THEN errexit(d2, failed)
                   ELSE IF deploy.BEHIND > 0
                        THEN err(d2, "Branch is behind upstream. Pull/rebase first.")
                   ELSE IF deploy.AHEAD > 0
                        THEN Step(push(d3), "deploy")
                        ELSE Step(d2, "deploy")
              ELSE Step(push(d4), "deploy")

\* lines 92-106.  said: git push wrote something to its stdout, which is the
\* script's stdout
PushBranch ==
    /\ deploy.pc = "upstream"
    /\ \E counted \in BOOLEAN, pushed \in BOOLEAN, said \in BOOLEAN,
          failed \in FailStatus :
         LET d1 == Ran(deploy, "git rev-parse --abbrev-ref @{upstream}", deploy.upstream)
             d2 == Ran(d1, "git rev-list --left-right --count", counted)
             d3 == log(d2, "==> Pushing unpushed commit(s) to origin")
             d4 == log(d1, "==> Branch has no upstream. Pushing and setting upstream to origin")
             push(d) == IF said THEN Echo(Ran(d, "git push", pushed), "git push: stdout")
                        ELSE Ran(d, "git push", pushed)
         IN deploy' =
              IF deploy.upstream
              THEN IF ~counted THEN errexit(d2, failed)
                   ELSE IF deploy.BEHIND > 0
                        THEN err(d2, "Branch is behind upstream. Pull/rebase first.")
                   ELSE IF deploy.AHEAD > 0
                        THEN IF pushed THEN Step(push(d3), "deploy")
                             ELSE errexit(push(d3), failed)
                        ELSE Step(d2, "deploy")
              ELSE IF pushed THEN Step(push(d4), "deploy")
                   ELSE errexit(push(d4), failed)

\* lines 108-130.  deploy-env.sh runs with its stdout captured in
\* DEPLOY_OUTPUT and its stderr left on the script's stderr
DeployPreview ==
    /\ deploy.pc = "deploy"
    /\ \E sha \in BOOLEAN, ok \in BOOLEAN, output \in {"", "deploy-env.sh: stdout"},
          failed \in FailStatus :
         LET d1 == Ran(deploy, "git rev-parse --short=8 HEAD", sha)
             d2 == log(d1, "==> Deploying preview app")
             d3 == [Ran(d2, "deploy-env.sh", ok)
                      EXCEPT !.stderr = Append(@, "deploy-env.sh: stderr"),
                             !.DEPLOY_OUTPUT = output]
             d4 == IF output # "" THEN [d3 EXCEPT !.stderr = Append(@, output)]
                   ELSE d3
         IN deploy' =
              IF ~sha THEN errexit(d1, failed)
              ELSE IF ~ok THEN err(d4, "Preview deployment failed")
              ELSE Step(d3, "output")

\* lines 132-170, and the end of the script
EmitMetadata ==
    /\ deploy.pc = "output"
    /\ LET d1 == log(deploy, deploy.DEPLOY_OUTPUT)
           d2 == Echo(d1, IF deploy.FORMAT = "human" THEN "Preview deployment is live."
                          ELSE "metadata: " \o deploy.FORMAT)
       IN deploy' = [d2 EXCEPT !.pc = "exit", !.exited = TRUE, !.code = 0]

NextPreview ==
    \/ CheckFormat /\ UNCHANGED <<tables, resp, seed, boot, ui>>
    \/ CheckBranch /\ UNCHANGED <<tables, resp, seed, boot, ui>>
    \/ PushBranch /\ UNCHANGED <<tables, resp, seed, boot, ui>>
    \/ DeployPreview /\ UNCHANGED <<tables, resp, seed, boot, ui>>
    \/ EmitMetadata /\ UNCHANGED <<tables, resp, seed, boot, ui>>

SpecPreview == InitPreview /\ [][NextPreview]_vars


-----------------------------------------------------------------------------
(* Accounts of every shape the users table allows (name and email are both *)
(* optional strings): each bootstraps its workspace.                        *)

InitNaming ==
    /\ users \in
         {<<first, second>> :
            first, second \in
               [email : {None, Some(<<"bob", "@", "x.io">>), Some(<<"@", "x.io">>),
                         Some(<<>>)},
                name : {None, Some(<<SP, "Ann", SP>>), Some(<<SP>>)}]}
    /\ profiles = <<>>
    /\ workspaces = <<>>
    /\ members = <<>>
    /\ channels = <<>>
    /\ messages = <<>>
    /\ resp = NoCall
    /\ seed = <<>>
    /\ boot = <<>>
    /\ ui = <<>>
    /\ deploy = <<>>

NextNaming ==
    \/ \E userId \in Callers :
         ensureForCurrentUser(userId) /\ UNCHANGED <<seed, boot, ui, deploy>>
    \/ \E userId \in Callers :
         myWorkspace(userId) /\ UNCHANGED <<seed, boot, ui, deploy>>

SpecNaming == InitNaming /\ [][NextNaming]_vars


-----------------------------------------------------------------------------
(* One execution of the seed action while the first seed user, once the    *)
(* account exists, signs in, bootstraps, creates channels and posts into   *)
(* the channel created last, and while createWorkspace and addMember are   *)
(* run from outside.  The                                                  *)
(* exploration stops at PostsMaxWorkspaces workspaces, PostsMaxChannels    *)
(* channels and PostsMaxPosts messages sent through messages.send.         *)

PostsMaxWorkspaces == 2
PostsMaxChannels == 6
PostsMaxPosts == 1

PostsBounded ==
    /\ Len(workspaces') <= PostsMaxWorkspaces
    /\ Len(channels') <= PostsMaxChannels
    /\ Cardinality({i \in Ids(messages') :
                       messages'[i].content \in {trim(c) : c \in ContentArgs}})
          <= PostsMaxPosts

NextPosts ==
    \/ \E r \in DOMAIN seed : ensureUser(r) /\ UNCHANGED <<boot, ui, deploy>>
    \/ \E r \in DOMAIN seed : upsertProfiles(r) /\ UNCHANGED <<boot, ui, deploy>>
    \/ \E r \in DOMAIN seed : ensureWorkspace(r) /\ PostsBounded /\ UNCHANGED <<boot, ui, deploy>>
    \/ \E r \in DOMAIN seed : addMembers(r) /\ UNCHANGED <<boot, ui, deploy>>
    \/ \E r \in DOMAIN seed : ensureChannel(r) /\ PostsBounded /\ UNCHANGED <<boot, ui, deploy>>
    \/ \E r \in DOMAIN seed : seedMessages(r) /\ UNCHANGED <<boot, ui, deploy>>
    \/ \E userId \in Writers :
         ensureForCurrentUser(userId) /\ PostsBounded /\ UNCHANGED <<seed, boot, ui, deploy>>
    \/ \E createdBy \in Writers :
         createWorkspace(<<SP, "Team", SP>>, createdBy) /\ PostsBounded
            /\ UNCHANGED <<seed, boot, ui, deploy>>
    \/ \E workspaceId \in Ids(workspaces), userId \in Writers, role \in ClientRoles :
         addMember(workspaceId, userId, role) /\ UNCHANGED <<seed, boot, ui, deploy>>
    \/ \E userId \in Writers :
         ChannelsCreate(userId, <<"general">>) /\ PostsBounded
            /\ UNCHANGED <<seed, boot, ui, deploy>>
    \/ \E userId \in Writers, channelId \in {Len(channels)} \cap Ids(channels),
          content \in ContentArgs :
         MessagesSend(userId, channelId, content) /\ PostsBounded
            /\ UNCHANGED <<seed, boot, ui, deploy>>

SpecPosts == InitSeedClients /\ [][NextPosts]_vars


-----------------------------------------------------------------------------
(* Properties.                                                             *)

\* the workspace of a user's (lowest) membership row
WorkspaceOf(userId) == members[Min(MembersByUser(userId))].workspaceId

\* the user has exactly one membership, and the channel exists in another
\* workspace
Foreign(userId, channelId) ==
    /\ Cardinality(MembersByUser(userId)) = 1
    /\ Exists(channels, channelId)
    /\ channels[channelId].workspaceId # WorkspaceOf(userId)

Queries == {"channels.list", "channels.get", "messages.list", "messages.search",
            "myWorkspace"}
Mutations == {"channels.create", "messages.send", "ensureForCurrentUser"}

\* C1: every user has at most one workspaceMembers row, in every state reached
\* by any interleaving of ensureForCurrentUser, addMember and the seed action.
C1_SingleMembership ==
    \A userId \in Ids(users) : Cardinality(MembersByUser(userId)) <= 1

\* C1 witness: addMember for a user who has a row in another workspace was
\* refused, and the user still has the one row.
C1_Witness ==
    /\ resp.op = "addMember"
    /\ resp.err = ErrDifferent
    /\ Cardinality(MembersByUser(resp.user)) = 1

\* the calls of one account's clients
CallsOf(userId) == {call \in DOMAIN boot : call[1] = userId}
AllReturned(userId) == \A call \in CallsOf(userId) : boot[call].state # "pending"

\* C2: once the N concurrent ensureForCurrentUser calls of a user with no
\* membership have ended, there is exactly one workspace created by the user,
\* exactly one membership row of the user, with role owner, exactly one channel
\* named general in that workspace, every call returned the same workspaceId
\* and exactly one of them returned created = true.
C2_BootstrapOnce ==
    \A userId \in Ids(users) :
        (CallsOf(userId) # {} /\ AllReturned(userId)) =>
            /\ Cardinality({w \in Ids(workspaces) : workspaces[w].createdBy = userId}) = 1
            /\ Cardinality(MembersByUser(userId)) = 1
            /\ \A m \in MembersByUser(userId) :
                 /\ members[m].role = "owner"
                 /\ workspaces[members[m].workspaceId].createdBy = userId
                 /\ Cardinality(ChannelsByWorkspaceAndName(members[m].workspaceId,
                                                           <<"general">>)) = 1
                 /\ \A call \in CallsOf(userId) :
                      /\ boot[call].state = "returned"
                      /\ boot[call].workspaceId = members[m].workspaceId
            /\ Cardinality({call \in CallsOf(userId) : boot[call].created}) = 1

\* C2 witness: all calls of every account have ended.
C2_Witness ==
    /\ DOMAIN boot # {}
    /\ \A userId \in Ids(users) : AllReturned(userId)

\* the last call was op, by a member of one workspace, on a channel of another
ForeignCall(op) ==
    /\ resp.op = op
    /\ resp.user # NoUser
    /\ Foreign(resp.user, resp.arg.channelId)

ForeignSend == resp'.op = "messages.send" /\ resp'.user # NoUser
                 /\ Cardinality(MembersByUser(resp'.user)) = 1
                 /\ Exists(channels, resp'.arg.channelId)
                 /\ channels[resp'.arg.channelId].workspaceId # WorkspaceOf(resp'.user)

\* C3 as claimed: a member of workspace A who calls channels.get, messages.list,
\* messages.send or messages.search with a channel of workspace B always gets a
\* "Not authorized" error and no data, and messages.send inserts nothing.
C3_Original ==
    /\ [](\A op \in {"channels.get", "messages.list", "messages.send", "messages.search"} :
            ForeignCall(op) =>
                resp.kind = "error" /\ resp.err \in NotAuthorized /\ resp.ret = <<>>)
    /\ [][ForeignSend => messages' = messages]_vars

\* C3 as amended: such a call returns no data and inserts no message; it fails
\* with the function's "Not authorized" error, except that messages.send with
\* content that is empty after trimming fails with "Message cannot be empty"
\* and messages.search with a query that is empty after trimming returns the
\* empty list.
C3_Isolation ==
    /\ [](/\ ForeignCall("channels.get") =>
                resp.kind = "error" /\ resp.err = ErrChannelAccess
          /\ ForeignCall("messages.list") =>
                resp.kind = "error" /\ resp.err = ErrChannelAccess
          /\ ForeignCall("messages.send") =>
                /\ resp.kind = "error"
                /\ resp.err = IF trim(resp.arg.text) = <<>>
                              THEN ErrMessageEmpty ELSE ErrChannelSend
          /\ ForeignCall("messages.search") =>
                IF trim(resp.arg.text) = <<>> THEN resp.kind = "list"
                ELSE resp.kind = "error" /\ resp.err = ErrChannelSearch
          /\ \A op \in {"channels.get", "messages.list", "messages.send",
                        "messages.search"} :
                ForeignCall(op) => resp.ret = <<>>)
    /\ [][ForeignSend => messages' = messages]_vars

\* C3 witness: a member of one workspace sent non-empty content to a channel
\* of another workspace and was refused.
C3_Witness ==
    /\ ForeignCall("messages.send")
    /\ trim(resp.arg.text) # <<>>
    /\ resp.err = ErrChannelSend

\* C4: every document channels.list, messages.list and messages.search return
\* is of the workspace of the caller's membership (so a search text found only
\* in another workspace's messages yields nothing), and every message
\* messages.search returns for a channelId is of that channel.
C4_ResultScoping ==
    /\ (resp.op = "channels.list" /\ resp.kind = "list") =>
          \A i \in DOMAIN resp.ret :
             /\ MembersByUser(resp.user) # {}
             /\ resp.ret[i].workspaceId = WorkspaceOf(resp.user)
    /\ (resp.op \in {"messages.list", "messages.search"} /\ resp.kind = "list") =>
          \A i \in DOMAIN resp.ret :
             /\ MembersByUser(resp.user) # {}
             /\ resp.ret[i].message.workspaceId = WorkspaceOf(resp.user)
    /\ (resp.op = "messages.search" /\ resp.kind = "list"
          /\ resp.arg.channelId # NoArg) =>
          \A i \in DOMAIN resp.ret :
             resp.ret[i].message.channelId = resp.arg.channelId
    /\ (resp.op = "messages.search" /\ resp.kind = "list"
          /\ MembersByUser(resp.user) # {}
          /\ \A m \in Ids(messages) :
                Words(messages[m].content) \cap Words(resp.arg.text) # {}
                    => messages[m].workspaceId # WorkspaceOf(resp.user)) =>
          resp.ret = <<>>

\* C4 witness: a search without a channel filter returned messages while
\* another workspace holds a message with a word of the search text.
C4_Witness ==
    /\ resp.op = "messages.search"
    /\ resp.arg.channelId = NoArg
    /\ resp.ret # <<>>
    /\ \E m \in Ids(messages) :
          /\ Words(messages[m].content) \cap Words(resp.arg.text) # {}
          /\ messages[m].workspaceId # WorkspaceOf(resp.user)

\* C5: a call of any backend function or membership lookup by (or, for
\* addMember and the lookups, about) a user who has two or more membership
\* rows fails with the multiple-workspaces error.
C5_FatalMultiMembership ==
    (/\ resp.op \in Queries \cup Mutations
                    \cup {"addMember", "isMemberOfWorkspace", "getMembershipForUser"}
     /\ resp.user # NoUser
     /\ Cardinality(MembersByUser(resp.user)) >= 2) =>
        resp.kind = "error" /\ resp.err = ErrMultiple

\* C6: without an authenticated user every query returns the empty list or
\* null without raising, and every mutation fails with "Not authenticated" and
\* leaves every table as it was.
C6_Unauthenticated ==
    /\ []((resp.user = NoUser /\ resp.op \in Queries) =>
            /\ resp.ret = <<>>
            /\ resp.kind = IF resp.op \in {"channels.get", "myWorkspace"}
                           THEN "null" ELSE "list")
    /\ []((resp.user = NoUser /\ resp.op \in Mutations) =>
            resp.kind = "error" /\ resp.err = ErrNotAuthenticated)
    /\ [][(resp'.user = NoUser /\ resp'.op \in Queries \cup Mutations) =>
            tables' = tables]_vars

\* C6 witness: an anonymous caller sent non-empty content to an existing channel.
C6_Witness ==
    /\ resp.op = "messages.send"
    /\ resp.user = NoUser
    /\ Exists(channels, resp.arg.channelId)
    /\ trim(resp.arg.text) # <<>>

\* the last call was op, by a signed-in user without a membership row
Memberless(r) == r.user # NoUser /\ MembersByUser(r.user) = {}

\* C7 as claimed: for a signed-in caller without a membership every query
\* returns empty or null, and channels.create and messages.send fail, for any
\* arguments, with "No workspace membership" and write nothing.
C7_Original ==
    /\ []((Memberless(resp) /\ resp.op \in Queries) =>
            resp.ret = <<>> /\ resp.kind \in {"list", "null"})
    /\ []((Memberless(resp) /\ resp.op \in {"channels.create", "messages.send"}) =>
            resp.kind = "error" /\ resp.err = ErrNoMembership)
    /\ [][(Memberless(resp') /\ resp'.op \in {"channels.create", "messages.send"}) =>
            tables' = tables]_vars

\* C7 as amended: for a signed-in caller without a membership every query
\* returns empty or null; messages.send, for any arguments, and channels.create
\* with a name that is not empty after trimming fail with "No workspace
\* membership"; channels.create with a name that is empty after trimming fails
\* with "Channel name is required"; none of them writes anything.
C7_NoMembership ==
    /\ []((Memberless(resp) /\ resp.op \in Queries) =>
            /\ resp.ret = <<>>
            /\ resp.kind = IF resp.op \in {"channels.get", "myWorkspace"}
                           THEN "null" ELSE "list")
    /\ []((Memberless(resp) /\ resp.op = "messages.send") =>
            resp.kind = "error" /\ resp.err = ErrNoMembership)
    /\ []((Memberless(resp) /\ resp.op = "channels.create") =>
            /\ resp.kind = "error"
            /\ resp.err = IF trim(resp.arg.text) = <<>>
                          THEN ErrChannelName ELSE ErrNoMembership)
    /\ [][(Memberless(resp') /\ resp'.op \in {"channels.create", "messages.send"}) =>
            tables' = tables]_vars

\* C7 witness: a signed-in user without a membership sent empty content to an
\* existing channel and got the membership error.
C7_Witness ==
    /\ resp.op = "messages.send"
    /\ Memberless(resp)
    /\ Exists(channels, resp.arg.channelId)
    /\ trim(resp.arg.text) = <<>>
    /\ resp.err = ErrNoMembership

\* C8: no workspace holds two channels of the same name, in every state
\* reached by any interleaving of channels.create, ensureForCurrentUser and the
\* transactions of the seed action.
C8_ChannelNameUnique ==
    \A c, d \in Ids(channels) :
        (channels[c].workspaceId = channels[d].workspaceId
            /\ channels[c].name = channels[d].name) => c = d

\* what a completed seed leaves: the four seed users, the two seed workspaces,
\* the four memberships with their roles, the three channels of each
\* workspace, four messages in each channel
SeedState ==
    /\ Len(users) = Len(SEED_USERS)
    /\ \A k \in DOMAIN SEED_USERS : findUserByEmail(SEED_USERS[k].email) # NoDoc
    /\ Len(workspaces) = Len(SEED_WORKSPACES)
    /\ Len(members) = Len(SEED_MEMBERS)
    /\ \A k \in DOMAIN SEED_MEMBERS :
          \E m \in MembersByWorkspaceAndUser(
                      findWorkspaceByName(SEED_WORKSPACES[SEED_MEMBERS[k].workspace].name),
                      findUserByEmail(SEED_USERS[SEED_MEMBERS[k].user].email)) :
             members[m].role = SEED_MEMBERS[k].role
    /\ Len(channels) = Len(SEED_WORKSPACES) * Len(WORKSPACE_CHANNELS)
    /\ \A w \in DOMAIN SEED_WORKSPACES, c \in DOMAIN WORKSPACE_CHANNELS :
          LET found == ChannelsByWorkspaceAndName(
                          findWorkspaceByName(SEED_WORKSPACES[w].name),
                          WORKSPACE_CHANNELS[c])
          IN /\ Cardinality(found) = 1
             /\ \A channelId \in found :
                   Cardinality(MessagesByChannel(channelId))
                      = Len(buildSeedMessages(SEED_WORKSPACES[w].name,
                                              WORKSPACE_CHANNELS[c]))

SomeSeedDone == \E r \in DOMAIN seed : seed[r].pc = "done"

\* C9: a seed run that completes leaves the four seed users, two workspaces,
\* four memberships with the fixed roles, three channels per workspace and
\* four messages per channel, and the runs after it change no table: twice in
\* sequence yields the state of once.
C9_SeedIdempotent ==
    /\ [](SomeSeedDone => SeedState)
    /\ [][SomeSeedDone => tables' = tables]_vars

\* C9 witness: two seed runs have completed, one after the other.
C9_Witness ==
    Cardinality({r \in DOMAIN seed : seed[r].pc = "done"}) >= 2

\* C10: overlapping seed executions leave at most one workspace per seed
\* workspace name, at most one channel per workspace and name, and no seed
\* message twice in a channel.  (Tables only grow: what a state holds twice,
\* the final state holds twice.)
C10_NoSeedDuplicates ==
    /\ \A v, w \in Ids(workspaces) : workspaces[v].name = workspaces[w].name => v = w
    /\ \A c, d \in Ids(channels) :
          (channels[c].workspaceId = channels[d].workspaceId
              /\ channels[c].name = channels[d].name) => c = d
    /\ \A m, n \in Ids(messages) :
          (messages[m].channelId = messages[n].channelId
              /\ messages[m].content = messages[n].content) => m = n

\* C11: ensureForCurrentUser, called by a signed-in user who has exactly one
\* membership, returns that membership's workspaceId with created = false and
\* leaves workspaces, workspaceMembers and channels as they were, at every call.
C11_EnsureExisting ==
    [][(/\ resp'.op = "ensureForCurrentUser"
        /\ resp'.user # NoUser
        /\ Cardinality(MembersByUser(resp'.user)) = 1) =>
          /\ resp'.kind = "id"
          /\ resp'.ret = <<WorkspaceOf(resp'.user)>>
          /\ resp'.created = FALSE
          /\ UNCHANGED <<workspaces, members, channels>>]_vars

\* C11 witness: a member whose workspace has got a second channel since it was
\* created called ensureForCurrentUser again and was given the workspace.
C11_Witness ==
    /\ resp.op = "ensureForCurrentUser"
    /\ resp.kind = "id"
    /\ resp.created = FALSE
    /\ Cardinality(ChannelsByWorkspace(resp.ret[1])) >= 2

\* the user has a workspace of their own making, with a general channel
HasPersonalWorkspace(userId) ==
    \E m \in MembersByUser(userId) :
        /\ workspaces[members[m].workspaceId].createdBy = userId
        /\ ChannelsByWorkspaceAndName(members[m].workspaceId, <<"general">>) # {}

\* C12: in every tab of a signed-in user, a myWorkspace result of null that
\* has not been acted on leads to a call of ensureForCurrentUser, and a call
\* that succeeded leads to the user having a personal workspace with a general
\* channel, myWorkspace being non-null in the tab and the children of
\* WorkspaceBootstrap being rendered.
C12_FirstSignIn ==
    \A tab \in 1..UiTabs :
        /\ EffectPending(tab) ~> (ui[tab].call = "pending")
        /\ (ui[tab].call = "fulfilled") ~>
              (/\ HasPersonalWorkspace(UiUser)
               /\ ui[tab].workspace = "doc"
               /\ ChildrenRendered(tab))

\* C12 witness: every tab has called ensureForCurrentUser and shows the chat;
\* the call made last found the workspace another tab's call created.
C12_Witness ==
    /\ \A tab \in 1..UiTabs : ChildrenRendered(tab) /\ ui[tab].call = "settled"
    /\ HasPersonalWorkspace(UiUser)
    /\ resp.op = "ensureForCurrentUser" /\ resp.created = FALSE

\* the last call was op with a text argument that is empty after trimming
BlankCall(r, op) == r.op = op /\ trim(r.arg.text) = <<>>

\* C13 as claimed, read for signed-in callers: channels.create with a blank
\* name, messages.send with blank content and createWorkspace with a blank
\* name each fail with their validation message and change no table.
C13_Original ==
    /\ []((BlankCall(resp, "channels.create") /\ resp.user # NoUser) =>
            resp.kind = "error" /\ resp.err = ErrChannelName)
    /\ []((BlankCall(resp, "messages.send") /\ resp.user # NoUser) =>
            resp.kind = "error" /\ resp.err = ErrMessageEmpty)
    /\ [](BlankCall(resp, "createWorkspace") =>
            resp.kind = "error" /\ resp.err = ErrWorkspaceName)
    /\ [][(\E op \in {"channels.create", "messages.send", "createWorkspace"} :
              BlankCall(resp', op)) => tables' = tables]_vars

\* C13 as amended: channels.create by a signed-in caller with a blank name
\* fails with "Channel name is required"; messages.send with blank content by
\* a signed-in caller who has exactly one membership fails with "Message
\* cannot be empty" (without a membership it fails with the no-membership
\* error instead); createWorkspace with a blank name fails with "Workspace
\* name is required"; each of these calls, whoever makes it, changes no table.
C13_ValidationBeforeWrite ==
    /\ []((BlankCall(resp, "channels.create") /\ resp.user # NoUser) =>
            resp.kind = "error" /\ resp.err = ErrChannelName)
    /\ []((BlankCall(resp, "messages.send") /\ resp.user # NoUser) =>
            /\ resp.kind = "error"
            /\ Cardinality(MembersByUser(resp.user)) = 1 => resp.err = ErrMessageEmpty
            /\ Cardinality(MembersByUser(resp.user)) = 0 => resp.err = ErrNoMembership)
    /\ [](BlankCall(resp, "createWorkspace") =>
            resp.kind = "error" /\ resp.err = ErrWorkspaceName)
    /\ [][(\E op \in {"channels.create", "messages.send", "createWorkspace"} :
              BlankCall(resp', op)) => tables' = tables]_vars

\* C13 witness: a member sent blank content to a channel of their workspace
\* and got the validation message.
C13_Witness ==
    /\ BlankCall(resp, "messages.send")
    /\ resp.user # NoUser
    /\ Exists(channels, resp.arg.channelId)
    /\ ~Foreign(resp.user, resp.arg.channelId)
    /\ MembersByUser(resp.user) # {}
    /\ resp.err = ErrMessageEmpty

\* C14: messages.search by a signed-in member with a query that is empty or
\* only whitespace returns the empty list, and messages.search returns at
\* most 50 messages for any query.
C14_SearchBounded ==
    /\ (/\ BlankCall(resp, "messages.search")
        /\ resp.user # NoUser
        /\ Cardinality(MembersByUser(resp.user)) = 1) =>
          resp.kind = "list" /\ resp.ret = <<>>
    /\ resp.op = "messages.search" => Len(resp.ret) <= 50

\* C14 witness: a search returned 50 messages while more than 50 messages of
\* the caller's workspace hold a word of the query.
C14_Witness ==
    /\ resp.op = "messages.search"
    /\ Len(resp.ret) = 50
    /\ Cardinality(searchContent(trim(resp.arg.text), WorkspaceOf(resp.user), NoArg)) > 50

\* C15: addMember(workspaceId, userId, role), called when a row of
\* (workspaceId, userId) exists, inserts no row, returns the id of that row and
\* leaves it with the requested role, changing nothing else (so nothing at
\* all when the role was the requested one); and every addMember call that
\* returns leaves the row it names with exactly its arguments, so that a
\* second call with the same arguments changes nothing.
C15_AddMemberIdempotent ==
    /\ [][(/\ resp'.op = "addMember"
           /\ MembersByWorkspaceAndUser(resp'.arg.channelId, resp'.user) # {}) =>
             LET existing == Min(MembersByWorkspaceAndUser(resp'.arg.channelId, resp'.user))
             IN /\ resp'.kind = "id"
                /\ resp'.ret = <<existing>>
                /\ members' = [members EXCEPT ![existing].role = resp'.arg.text[1]]]_vars
    /\ []((resp.op = "addMember" /\ resp.kind = "id") =>
             members[resp.ret[1]] = [workspaceId |-> resp.arg.channelId,
                                     userId |-> resp.user,
                                     role |-> resp.arg.text[1]])

\* C15 witness: addMember returned the row ensureForCurrentUser had made for
\* the owner of a personal workspace, now with role member.
C15_Witness ==
    /\ resp.op = "addMember"
    /\ resp.kind = "id"
    /\ resp.arg.text = <<"member">>
    /\ workspaces[resp.arg.channelId].name = personalWorkspaceName(users[resp.user])
    /\ Cardinality(MembersByUser(resp.user)) = 1

\* the user has one membership, in a workspace other than workspaceId
MemberElsewhere(userId, workspaceId) ==
    /\ Cardinality(MembersByUser(userId)) = 1
    /\ WorkspaceOf(userId) # workspaceId

\* the membership step of seed run r is about to add a user who is a member
\* elsewhere
SeedMemberElsewhere(r) ==
    /\ seed[r].pc = "addMember"
    /\ MemberElsewhere(seed[r].userIds[SEED_MEMBERS[seed[r].i].user],
                       seed[r].workspaceIds[SEED_MEMBERS[seed[r].i].workspace])

\* C16: addMember for a user whose membership is in a workspace other than
\* the requested one fails with "User already belongs to a different
\* workspace" and leaves workspaceMembers as it was; a seed run whose
\* membership step meets such a user ends there, and does nothing afterwards.
C16_AddMemberElsewhere ==
    /\ [][(/\ resp'.op = "addMember"
           /\ MemberElsewhere(resp'.user, resp'.arg.channelId)) =>
             /\ resp'.kind = "error"
             /\ resp'.err = ErrDifferent
             /\ members' = members]_vars
    /\ [][\A r \in DOMAIN seed :
             (SeedMemberElsewhere(r) /\ seed'[r] # seed[r]) =>
                seed'[r].pc = "failed" /\ members' = members]_vars
    /\ [][\A r \in DOMAIN seed :
             seed[r].pc = "failed" => seed'[r] = seed[r]]_vars

\* C16 witness: the seed run has ended at its membership step, on a seed user
\* who had bootstrapped a personal workspace.
C16_Witness ==
    /\ seed[1].pc = "failed"
    /\ resp.op = "addMember"
    /\ resp.err = ErrDifferent
    /\ HasPersonalWorkspace(resp.user)
    /\ seed[1].workspaceIds[1] # NoDoc

\* seed run r is about to look up what it has just made, and will not find it
LostUser(r) ==
    /\ seed[r].pc = "ensureUser.refind"
    /\ findUserByEmail(SEED_USERS[seed[r].i].email) = NoDoc
LostWorkspace(r) ==
    /\ seed[r].pc = "ensureWorkspace.refind"
    /\ findWorkspaceByName(SEED_WORKSPACES[seed[r].i].name) # seed[r].createdId
LostChannel(r) ==
    /\ seed[r].pc = "ensureChannel.refind"
    /\ findChannelByWorkspaceAndName(seed[r].workspaceIds[seed[r].w],
                                     WORKSPACE_CHANNELS[seed[r].i]) # seed[r].createdId

\* seed run r has not got past its users: it is ensuring them, or it threw
\* before it had them all
AtUsers(r) ==
    \/ seed[r].pc \in {"ensureUser.find", "ensureUser.signIn", "ensureUser.refind"}
    \/ seed[r].pc = "failed" /\ seed[r].userIds[Len(SEED_USERS)] = NoDoc

\* C17: a seed run that, after the sign-up, does not find the user by email,
\* or that does not find the workspace or channel it has just created under
\* its name with the id created, throws at that step without writing; a run
\* that threw takes no later step; and while no run has got past its users,
\* no profile, workspace, membership, channel or message has been written.
C17_SeedAbort ==
    /\ [][\A r \in DOMAIN seed :
             ((LostUser(r) \/ LostWorkspace(r) \/ LostChannel(r))
                 /\ seed'[r] # seed[r]) =>
                seed'[r].pc = "failed" /\ tables' = tables]_vars
    /\ [][\A r \in DOMAIN seed :
             seed[r].pc = "failed" => seed'[r].pc = "failed"]_vars
    /\ []((\A r \in DOMAIN seed : AtUsers(r)) =>
             /\ profiles = <<>>
             /\ workspaces = <<>>
             /\ members = <<>>
             /\ channels = <<>>
             /\ messages = <<>>)

\* C17 witness: every run threw while ensuring its users, one of them after
\* it had found or created a user.
C17_Witness ==
    /\ \A r \in DOMAIN seed : seed[r].pc = "failed" /\ AtUsers(r)
    /\ \E r \in DOMAIN seed : seed[r].userIds[1] # NoDoc

\* the positions in deploy.ran of the runs of a command
RunsOf(cmd) == {i \in DOMAIN deploy.ran : deploy.ran[i].cmd = cmd}

FailedRunsOf(cmd) == {i \in RunsOf(cmd) : ~deploy.ran[i].ok}

Printed(line) == \E i \in DOMAIN deploy.stdout : deploy.stdout[i] = line

LastStderr(msg) ==
    /\ deploy.stderr # <<>>
    /\ deploy.stderr[Len(deploy.stderr)] = "Error: " \o msg

\* some line of the success output (lines 206-212) is on stdout
SuccessOutput ==
    \/ Printed("Deployment complete.")
    \/ Printed(PreviewLine(deploy))
    \/ \E i \in DOMAIN SuccessLines(deploy) : Printed(SuccessLines(deploy)[i])

\* the script ended with status 0 and the whole success output on stdout
Succeeded ==
    /\ deploy.exited
    /\ deploy.code = 0
    /\ Printed("Deployment complete.")
    /\ \A i \in DOMAIN SuccessLines(deploy) : Printed(SuccessLines(deploy)[i])

\* C18: the script runs curl at most max_attempts times; it sleeps
\* SleepSeconds after a failed probe and before the next one, and at no other
\* time; a probe that succeeds is the last command the script runs, and the
\* script then prints the success output and exits 0; when max_attempts
\* probes have failed the script has exited non-zero with 'Smoke check
\* failed' as its last message, without sleeping again and without any
\* success output.
C18_SmokeBound ==
    /\ [](/\ Cardinality(RunsOf("curl")) <= max_attempts
          /\ \A i \in RunsOf("sleep") :
               i > 1 /\ deploy.ran[i - 1] = [cmd |-> "curl", ok |-> FALSE]
          /\ \A i \in RunsOf("curl") :
               (\E j \in RunsOf("curl") : j < i) => deploy.ran[i - 1].cmd = "sleep"
          /\ deploy.slept = SleepSeconds * Cardinality(RunsOf("sleep"))
          /\ \A i \in RunsOf("curl") :
               deploy.ran[i].ok =>
                  /\ i = Len(deploy.ran)
                  /\ deploy.pc = "complete" \/ Succeeded
          /\ Cardinality(FailedRunsOf("curl")) = max_attempts =>
               /\ deploy.exited
               /\ deploy.code # 0
               /\ LastStderr("Smoke check failed for " \o FLY_URL(deploy))
               /\ deploy.ran[Len(deploy.ran)].cmd = "curl"
               /\ ~SuccessOutput)
    /\ ((\E i \in RunsOf("curl") : deploy.ran[i].ok) ~> Succeeded)

\* C18 witness: the script exited after max_attempts failed probes.
C18_Witness ==
    /\ deploy.exited
    /\ Cardinality(FailedRunsOf("curl")) = max_attempts
    /\ deploy.slept = SleepSeconds * (max_attempts - 1)

\* the step of scripts/README.md (1 to 6) a command belongs to; 0 for the
\* checks made before the first step
StepOf(cmd) ==
    CASE cmd \in {"fly status", "fly apps create"} -> 1
      [] cmd = "convex deploy" -> 2
      [] cmd \in {"convex env list", "convex env set JWT_PRIVATE_KEY",
                  "convex env set JWKS"} -> 3
      [] cmd = "convex run seed" -> 4
      [] cmd = "fly deploy" -> 5
      [] cmd \in {"curl", "sleep"} -> 6
      [] OTHER -> 0

DeploySteps == {StepOf("fly status"), StepOf("convex deploy"),
                StepOf("convex env list"), StepOf("convex run seed"),
                StepOf("fly deploy"), StepOf("curl")}

StepRan(k) == \E i \in DOMAIN deploy.ran : StepOf(deploy.ran[i].cmd) = k

\* the step did not do what it is there for
StepFailed(k) ==
    CASE k = StepOf("fly status") -> FailedRunsOf("fly apps create") # {}
      [] k = StepOf("convex deploy") ->
            \/ FailedRunsOf("convex deploy") # {}
            \/ LastStderr("Unable to determine Convex URL from deploy output")
      [] k = StepOf("convex env list") ->
            \/ FailedRunsOf("convex env set JWT_PRIVATE_KEY") # {}
            \/ FailedRunsOf("convex env set JWKS") # {}
            \/ LastStderr("Deployment is missing JWT_PRIVATE_KEY/JWKS. Set CONVEX_JWT_PRIVATE_KEY and CONVEX_JWKS.")
      [] k = StepOf("convex run seed") -> FailedRunsOf("convex run seed") # {}
      [] k = StepOf("fly deploy") -> FailedRunsOf("fly deploy") # {}
      [] k = StepOf("curl") -> Cardinality(FailedRunsOf("curl")) = max_attempts
      [] OTHER -> FALSE

AllStepsSucceeded ==
    /\ \A k \in DeploySteps : StepRan(k) /\ ~StepFailed(k)
    /\ \E i \in RunsOf("curl") : deploy.ran[i].ok

\* C19: the commands of the six steps run in the order of the steps, and a
\* step runs only after the step before it has run and not failed; once a
\* step has failed the script has exited non-zero and no command of a later
\* step has run; any line of the success output is on stdout only when all
\* six steps succeeded and the script exited 0, and then the four lines
\* ENV=, FLY_APP=, FLY_URL=, CONVEX_URL= are all there; the
\* CONVEX_PREVIEW_NAME= line is there exactly when the script succeeded with
\* --env preview.
C19_FailFast ==
    /\ \A i, j \in DOMAIN deploy.ran :
         i < j => StepOf(deploy.ran[i].cmd) <= StepOf(deploy.ran[j].cmd)
    /\ \A k \in DeploySteps :
         (StepRan(k) /\ k - 1 \in DeploySteps) =>
            StepRan(k - 1) /\ ~StepFailed(k - 1)
    /\ \A k \in DeploySteps :
         StepFailed(k) =>
            /\ deploy.exited
            /\ deploy.code # 0
            /\ \A i \in DOMAIN deploy.ran : StepOf(deploy.ran[i].cmd) <= k
    /\ SuccessOutput => AllStepsSucceeded /\ Succeeded
    /\ (deploy.exited /\ deploy.code = 0) => Succeeded
    /\ Printed(PreviewLine(deploy)) <=>
          (Succeeded /\ deploy.DEPLOY_ENV = "preview")

\* C19 witness: a preview deployment that had to create the Fly app and to
\* seed the auth keys went through all six steps and printed its five lines.
C19_Witness ==
    /\ Succeeded
    /\ deploy.DEPLOY_ENV = "preview"
    /\ Printed(PreviewLine(deploy))
    /\ RunsOf("fly apps create") # {}
    /\ RunsOf("convex env set JWKS") # {}

\* the positions in RequiredCmds of the commands that are not on PATH
MissingCmds == {i \in DOMAIN RequiredCmds : RequiredCmds[i] \notin deploy.path}

ArgsValid ==
    /\ deploy.FLY_APP # ""
    /\ deploy.DEPLOY_ENV \in {"prod", "dev", "preview"}
    /\ deploy.DEPLOY_ENV = "preview" => deploy.PREVIEW_NAME # ""

\* the script exited non-zero through err, with msg as its only message
ExitedWith(msg) ==
    /\ deploy.exited
    /\ deploy.code # 0
    /\ deploy.stderr = <<"Error: " \o msg>>

\* the checks up to and including the one at pc have not all been made
Before(pc) ==
    \E i, j \in 1..3 :
       /\ <<"args", "key", "require">>[i] = deploy.pc
       /\ <<"args", "key", "require">>[j] = pc
       /\ i <= j

\* the unset key, the missing command, the failed Convex deploy and the
\* failed smoke check each end the script with its message
MessageOnFailure ==
    /\ (ArgsValid /\ ~deploy.CONVEX_DEPLOY_KEY) =>
          Before("key") \/ ExitedWith("CONVEX_DEPLOY_KEY must be set")
    /\ (ArgsValid /\ deploy.CONVEX_DEPLOY_KEY /\ MissingCmds # {}) =>
          \/ Before("require")
          \/ ExitedWith("Required command not found: "
                           \o RequiredCmds[Min(MissingCmds)])
    /\ (~deploy.CONVEX_DEPLOY_KEY \/ MissingCmds # {}) =>
          \/ Before("require")
          \/ deploy.exited /\ deploy.code # 0 /\ Len(deploy.stderr) = 1
    /\ FailedRunsOf("convex deploy") # {} => ExitedWith("Convex deploy failed")
    /\ Cardinality(FailedRunsOf("curl")) = max_attempts =>
          ExitedWith("Smoke check failed for " \o FLY_URL(deploy))

\* C20 as stated: besides, once fly status has failed the script has exited
\* non-zero with a message on stderr.
C20_Original ==
    /\ MessageOnFailure
    /\ FailedRunsOf("fly status") # {} =>
          deploy.exited /\ deploy.code # 0 /\ deploy.stderr # <<>>

\* C20: the script exits non-zero with its own message on stderr when
\* CONVEX_DEPLOY_KEY is unset, when a required command is not found (naming
\* the first one missing), when the Convex deploy fails and when the smoke
\* check fails.  A failed fly status is no error: the script runs fly apps
\* create next and exits, with the status of that command and no message of
\* its own, only if the creation fails.
C20_Preconditions ==
    /\ MessageOnFailure
    /\ \A i \in FailedRunsOf("fly status") :
          /\ i < Len(deploy.ran)
          /\ deploy.ran[i + 1].cmd = "fly apps create"
          /\ deploy.ran[i + 1].ok => ~(deploy.exited /\ i + 1 = Len(deploy.ran))
          /\ ~deploy.ran[i + 1].ok =>
                deploy.exited /\ deploy.code # 0 /\ deploy.stderr = <<>>

\* C20 witness: fly status failed, the app was created, and the run later
\* ended on a failed Convex deploy.
C20_Witness ==
    /\ FailedRunsOf("fly status") # {}
    /\ ExitedWith("Convex deploy failed")

\* C21: with --format json or dotenv, the only thing the script ever writes
\* to stdout is the metadata payload; progress messages and the output of
\* git push and deploy-env.sh are not on stdout.
C21_StdoutPayloadOnly ==
    deploy.FORMAT \in {"json", "dotenv"} =>
       \A i \in DOMAIN deploy.stdout :
          deploy.stdout[i] = "metadata: " \o deploy.FORMAT

\* the branch has an upstream and is behind it
Behind == deploy.upstream /\ deploy.BEHIND > 0

\* the branch has commits its upstream lacks, or no upstream at all
Unpushed == ~deploy.upstream \/ deploy.AHEAD > 0

MetadataPrinted ==
    \E i \in DOMAIN deploy.stdout :
       deploy.stdout[i] \in {"Preview deployment is live.", "metadata: json",
                             "metadata: dotenv"}

\* C22: deploy-env.sh runs at most once, never on a branch that is behind
\* its upstream, and on a branch that is ahead or has no upstream only after
\* a git push that succeeded; a branch that is behind ends the script
\* non-zero with no push and no deployment; a failed push ends the script
\* non-zero with no deployment; and after a failed deploy-env.sh the script
\* has exited non-zero with 'Preview deployment failed' and no metadata on
\* stdout.
C22_PushBeforeDeploy ==
    /\ Cardinality(RunsOf("deploy-env.sh")) <= 1
    /\ \A i \in RunsOf("deploy-env.sh") :
          /\ ~Behind
          /\ Unpushed =>
                \E j \in RunsOf("git push") : j < i /\ deploy.ran[j].ok
    /\ Behind =>
          /\ RunsOf("git push") = {}
          /\ RunsOf("deploy-env.sh") = {}
          /\ deploy.pc \in {"format", "branch", "upstream"}
                \/ (deploy.exited /\ deploy.code # 0)
    /\ FailedRunsOf("git push") # {} =>
          /\ deploy.exited
          /\ deploy.code # 0
          /\ RunsOf("deploy-env.sh") = {}
    /\ FailedRunsOf("deploy-env.sh") # {} =>
          /\ deploy.exited
          /\ deploy.code # 0
          /\ LastStderr("Preview deployment failed")
          /\ ~MetadataPrinted

\* C22 witness: the branch was ahead, the push succeeded, deploy-env.sh ran
\* and failed.
C22_Witness ==
    /\ deploy.upstream
    /\ deploy.AHEAD > 0
    /\ \E j \in RunsOf("git push") : deploy.ran[j].ok
    /\ FailedRunsOf("deploy-env.sh") # {}
    /\ deploy.exited

\* the base the workspace name is built on: the trimmed display name if
\* there is one, else the local part of the email if there is one, else "My"
ExpectedBase(user) ==
    IF user.name # None /\ trim(user.name[1]) # <<>> THEN trim(user.name[1])
    ELSE IF user.email # None /\ localPart(user.email[1]) # <<>>
         THEN localPart(user.email[1])
         ELSE <<"My">>

\* C23: the workspace ensureForCurrentUser has just created is named
\* "<base>'s Workspace", base being the trimmed display name if non-empty,
\* otherwise the local part of the email, otherwise "My"; base is not empty.
C23_BootstrapName ==
    (resp.op = "ensureForCurrentUser" /\ resp.err = OK /\ resp.created) =>
       /\ ExpectedBase(users[resp.user]) # <<>>
       /\ workspaces[resp.ret[1]].name =
             ExpectedBase(users[resp.user]) \o <<"'s", SP, "Workspace">>

\* C24: no step of the backend (channels.create, messages.send,
\* ensureForCurrentUser, createWorkspace, addMember, the seed's mutations)
\* removes or changes a message that exists, nor removes a workspace: every
\* message keeps its id, workspaceId, channelId, authorId and content, and
\* every workspace id stays in the table.
C24_Immutable ==
    [][/\ \A i \in Ids(messages) : i \in Ids(messages') /\ messages'[i] = messages[i]
       /\ \A w \in Ids(workspaces) : w \in Ids(workspaces')]_vars

\* C24 witness: a user's message was stored after the seed had stored
\* messages of its own.
C24_Witness ==
    /\ resp.op = "messages.send"
    /\ resp.kind = "id"
    /\ resp.ret[1] = Len(messages)
    /\ Len(messages) > Len(WORKSPACE_CHANNELS)

\* C25: every message refers to a channel that exists, and its workspaceId
\* is that channel's workspaceId; the message messages.send has just stored
\* has the caller as its author, and the caller is a member of the
\* message's workspace.
C25_MessageConsistency ==
    /\ \A i \in Ids(messages) :
          /\ Exists(channels, messages[i].channelId)
          /\ channels[messages[i].channelId].workspaceId = messages[i].workspaceId
    /\ (resp.op = "messages.send" /\ resp.kind = "id") =>
          /\ messages[resp.ret[1]].authorId = resp.user
          /\ MembersByWorkspaceAndUser(messages[resp.ret[1]].workspaceId,
                                       resp.user) # {}

\* C25 witness: the seed has stored messages of its owner and its member in
\* a channel, and the owner has just sent a message to another channel of
\* the workspace.
C25_Witness ==
    /\ resp.op = "messages.send"
    /\ resp.kind = "id"
    /\ \E i \in Ids(messages) :
          /\ messages[i].authorId # resp.user
          /\ messages[i].workspaceId = messages[resp.ret[1]].workspaceId
          /\ messages[i].channelId # messages[resp.ret[1]].channelId

\* C26: the content of every stored message is not empty and is its own
\* trim.
C26_ContentTrimmed ==
    \A i \in Ids(messages) :
       /\ messages[i].content # <<>>
       /\ trim(messages[i].content) = messages[i].content

\* C26 witness: messages.send was given content inside whitespace and
\* stored it, next to messages of the seed.
C26_Witness ==
    /\ resp.op = "messages.send"
    /\ resp.kind = "id"
    /\ trim(resp.arg.text) # resp.arg.text
    /\ messages[resp.ret[1]].content = trim(resp.arg.text)
    /\ \E i \in Ids(messages) : messages[i].content \notin {trim(c) : c \in ContentArgs}

\* the messages of seed channel c of seed workspace w, oldest first
SeedChannelMessages(w, c) ==
    Asc(MessagesByChannel(
          findChannelByWorkspaceAndName(
             findWorkspaceByName(SEED_WORKSPACES[w].name), WORKSPACE_CHANNELS[c])))

\* C27: once a seed run has completed, every seed channel holds exactly four
\* messages, in this order: the welcome to its workspace, 'Use #<channel>
\* for focused updates.', the history line and the completed line, written
\* by the owner, the member, the owner and the member of its own workspace
\* and filed under that workspace; so one message of the channel, the
\* second, speaks of focused updates.
C27_SeedMessages ==
    SomeSeedDone =>
       \A w \in DOMAIN SEED_WORKSPACES, c \in DOMAIN WORKSPACE_CHANNELS :
          LET ids == SeedChannelMessages(w, c)
              owner == findUserByEmail(SEED_USERS[SEED_WORKSPACES[w].owner].email)
              member == findUserByEmail(SEED_USERS[SEED_WORKSPACES[w].member].email)
              name == WORKSPACE_CHANNELS[c]
              workspaceName == SEED_WORKSPACES[w].name
          IN /\ Len(ids) = 4
             /\ messages[ids[1]].content = <<"Welcome", SP, "to", SP>> \o workspaceName \o <<".">>
             /\ messages[ids[2]].content =
                   <<"Use", SP, "#">> \o name \o <<SP, "for", SP, "focused", SP, "updates", ".">>
             /\ "history" \in Words(messages[ids[3]].content)
             /\ messages[ids[4]].content =
                   <<"ChatWave", SP, "seed", SP, "completed", SP, "for", SP, "#">> \o name \o <<".">>
             /\ <<messages[ids[1]].authorId, messages[ids[2]].authorId,
                   messages[ids[3]].authorId, messages[ids[4]].authorId>>
                   = <<owner, member, owner, member>>
             /\ \A k \in DOMAIN ids :
                   /\ messages[ids[k]].workspaceId = findWorkspaceByName(workspaceName)
                   /\ "focused" \in Words(messages[ids[k]].content) <=> k = 2

\* C27 witness: a run has filled all six channels and the run after it has
\* completed as well.
C27_Witness ==
    /\ \A r \in DOMAIN seed : seed[r].pc = "done"
    /\ Len(messages) = 4 * Len(WORKSPACE_CHANNELS) * Len(SEED_WORKSPACES)

\* the positions in buildSeedMessages of the seed messages that seed
\* channel c of seed workspace w holds
SeedMessagesHeld(w, c) ==
    LET ids == SeedChannelMessages(w, c)
        contents == buildSeedMessages(SEED_WORKSPACES[w].name, WORKSPACE_CHANNELS[c])
    IN {k \in DOMAIN contents :
          \E n \in DOMAIN ids : messages[ids[n]].content = contents[k]}

SetsKey(key) ==
    \E i \in DOMAIN deploy'.ran \ DOMAIN deploy.ran :
       deploy'.ran[i].cmd = "convex env set " \o key

\* C29: ensure_auth_envs sets nothing when the deployment holds both auth
\* keys, never sets a key the deployment already holds, and ends the script
\* with a non-zero status, before the seed and the Fly deploy, when a key is
\* missing and CONVEX_JWT_PRIVATE_KEY and CONVEX_JWKS are not both set.
C29_SeedsOnlyMissing ==
    [][deploy.pc = "auth_envs" =>
         /\ deploy.keys = {"JWT_PRIVATE_KEY", "JWKS"} =>
               \A key \in deploy.keys : ~SetsKey(key)
         /\ \A key \in deploy.keys : ~SetsKey(key)
         /\ (deploy.keys # {"JWT_PRIVATE_KEY", "JWKS"} /\ ~deploy.CONVEX_JWT) =>
               /\ deploy'.exited
               /\ deploy'.code # 0
               /\ RunsOf("convex run seed") = {}
               /\ RunsOf("fly deploy") = {}]_vars

\* the tab calls ensureForCurrentUser in this step
Invoked(tab) == ui[tab].call # "pending" /\ ui'[tab].call = "pending"

\* the tab's attempt has failed and "Retry setup" has been clicked since
Retried(tab) == ui[tab].call = "settled" /\ ~ui[tab].attempted

\* C30: a tab calls ensureForCurrentUser only when the myWorkspace it
\* rendered is null and attempted is not set, and the call sets attempted;
\* attempted is cleared only by "Retry setup", which is there only when the
\* call has been rejected and the setup screen shows the error, so that
\* there is one call per attempt and none until Retry, however many times
\* the tab renders; and once Retry has been clicked after a failed attempt
\* the tab calls the mutation again.
C30_OneCallPerAttempt ==
    /\ [][\A tab \in 1..UiTabs :
             /\ Invoked(tab) =>
                   /\ ui[tab].workspace = "null"
                   /\ ~ui[tab].attempted
                   /\ ui'[tab].attempted
             /\ (ui[tab].attempted /\ ~ui'[tab].attempted) =>
                   /\ ui[tab].error
                   /\ ui[tab].call = "settled"
                   /\ SetupScreen(tab)]_vars
    /\ \A tab \in 1..UiTabs : Retried(tab) ~> (ui[tab].call = "pending")

\* C30 witness: a tab's call was rejected, Retry has been clicked, and the
\* other tab has meanwhile rendered again and again without a second call
C30_Witness ==
    \E tab, other \in 1..UiTabs :
       /\ Retried(tab)
       /\ ui[tab].workspace = "null"
       /\ other # tab
       /\ ui[other].attempted
       /\ ChildrenRendered(other)

=============================================================================
